---- MODULE Spec2Model ----
(***************************************************************************)
(* Header processing pipeline of the consensus crate                       *)
(* (consensus/src/pipeline/header_processor/processor.rs).                 *)
(*                                                                         *)
(* The model follows HeaderProcessor: the two bootstrap routines, the      *)
(* receiver loop `worker`, the pool task `queue_block`, `process_header`   *)
(* and the lock-by-lock steps of `commit_header`.  Every store has an      *)
(* in-memory view (mem) and a persisted view (db); a WriteBatch reaches    *)
(* db only at `db.write(batch)`.  The dependency manager, the stores, the  *)
(* validators and the GHOSTDAG engine live in other modules of the crate   *)
(* and are modelled after their documented contracts.                      *)
(*                                                                         *)
(* Two further components have specifications of their own: the address    *)
(* manager (components/addressmanager/src/lib.rs) and the set cache         *)
(* (database/src/set_cache.rs).                                            *)
(***************************************************************************)
EXTENDS Integers, Sequences, FiniteSets, TLC

\* ------------------------------------------------------------------ bounds
NumWorkers == 2        \* threads of the rayon pool
MaxIoFailures == 1     \* failing store operations in a run
MaxSubmit == 3         \* Process tasks read from the upstream channel
MaxBoots == 2          \* calls of the pair of bootstrap routines
MaxCacheSize == 2      \* largest size a SetCache is created with
MaxInputs == 2         \* inputs of a PartiallySignedTx
MaxPairs == 2          \* pub_key_sig_pairs of an input
MAX_ADDRESSES == 2     \* capacity of the not-banned store (4096 in lib.rs, scaled to the addresses below)

\* ------------------------------------------------------- program constants
GENESIS == 1           \* params.genesis_hash
ORIGIN == 9            \* blockhash::ORIGIN, the virtual root (an identifier distinct from every block hash)
max_block_level == 1   \* params.max_block_level
MAX_CONNECTION_FAILED_COUNT == 3   \* addressmanager
MAX_BANNED_TIME == 86400000        \* is_banned: 24 * 60 * 60 * 1000 ms

\* --------------------------------------------------------------- variables
VARIABLES
    cfg,        \* [process_genesis, badStage, origin_above, low_level]: configuration, the verdict
                \* of the validators on header 3, where ORIGIN falls in the order of hashes,
                \* and whether the proof of work of header 2 reaches level 0 only
    mem,        \* in-memory views of the stores
    db,         \* persisted contents of the stores
    guards,     \* holders of the write guards / the reachability upgradable guard
    th,         \* pool threads and the bootstrap thread
    pending,    \* dependency manager: entries of the pending hashes
    dependents, \* dependency manager: hashes waiting on a hash
    spawned,    \* queue_block tasks spawned on the pool and not started yet
    wpc,        \* position of the receiver loop `worker`
    sinkRes,    \* number of results each sink received (one sink per Process task read)
    sinkFwd,    \* number of times each sink was handed on downstream
    bodyChan,   \* tasks sent on body_sender
    counters,   \* ProcessingCounters
    commitLog,  \* hashes in the order of their batch flushes
    crashed,    \* the process was killed; only db survives
    ioFailed,   \* hashes whose processing hit a failing store operation
    boots,      \* number of times the two bootstrap routines were started
    am,         \* the address manager: its stores, the clock and the last call
    sc,         \* a SetCache: its map, its size and the last call
    sa,         \* a CachedDbSetAccess: its cache, the buckets of the database and the calls in progress
    wallet      \* a PartiallySignedTx, before and after a call of sign

vars == <<cfg, mem, db, guards, th, pending, dependents, spawned, wpc,
          sinkRes, sinkFwd, bodyChan, counters, commitLog, crashed, ioFailed, boots, am, sc, sa, wallet>>

\* ---------------------------------------------------------- input universe
\* Hashes of the headers the upstream may submit: genesis 1, two parallel
\* blocks 2 and 3 on top of genesis, and 4 merging both.
Hashes == 1..4
AllHashes == Hashes \cup {ORIGIN}
Levels == 0..max_block_level
Stages == {"ok", "pre_ghostdag", "pre_pow", "post_pow"}

\* header.direct_parents()
direct_parents(h) ==
    CASE h = 1 -> << >>
      [] h = 2 -> <<1>>
      [] h = 3 -> <<1>>
      [] h = 4 -> <<2, 3>>

\* header.blue_work
blue_work(h) ==
    CASE h = 1 -> 0
      [] h = 2 -> 1
      [] h = 3 -> 1
      [] h = 4 -> 2

\* The block level pre_ghostdag_validation derives from the proof of work.
pow_level(h) ==
    CASE h = 1 -> max_block_level
      [] h = 2 -> IF cfg.low_level THEN 0 ELSE 1
      [] h = 3 -> 0
      [] h = 4 -> 1

\* block.block.is_header_only()
is_header_only(h) == h \in {1, 4}

\* block.ghostdag_data.is_some(): the submission is a trusted one
ghostdag_data_option(h) == h = 4

Range(s) == {s[i] : i \in DOMAIN s}

\* parents_manager.parents_at_level(header, level): the parents of level >= l
parents_at_level(h, l) ==
    SelectSeq(direct_parents(h), LAMBDA p : pow_level(p) >= l)

\* Strict ancestry in the DAG of the universe.
RECURSIVE Ancestors(_)
Ancestors(h) ==
    LET ps == Range(direct_parents(h))
    IN  ps \cup UNION {Ancestors(p) : p \in ps}

Pool == 1..NumWorkers
Boot == NumWorkers + 1
Threads == 1..(NumWorkers + 1)

\* -------------------------------------------------------------- the stores
EmptyFn == [x \in {} |-> 0]

EmptyStores ==
    [ statuses  |-> EmptyFn,
      relations |-> [l \in Levels |-> EmptyFn],
      ghostdag  |-> [l \in Levels |-> EmptyFn],
      headers   |-> {},
      daa       |-> {},
      depth     |-> {},
      reach     |-> (ORIGIN :> [parent |-> ORIGIN, mergeset |-> {}]),
      hint      |-> ORIGIN,
      tip       |-> << >>,
      pruning   |-> << >> ]

EmptyBatch ==
    [ ghostdag |-> EmptyFn, daa |-> FALSE, headers |-> FALSE, depth |-> FALSE,
      tip |-> << >>, relations |-> EmptyFn, statuses |-> EmptyFn,
      reach |-> EmptyFn, hint |-> << >> ]

\* No call of the address manager was made yet.
NoCall == [op |-> "new", arg |-> << >>, res |-> << >>, from_stored |-> FALSE, failures |-> 0]

\* AddressManager::new over an empty database: the in-memory copy of the
\* not-banned store, the not-banned and the banned store of the database, the
\* clock unix_now reads, and the last call with its result.
EmptyDirectory ==
    [ addresses |-> EmptyFn, db |-> EmptyFn, banned |-> EmptyFn, now |-> 0, last |-> NoCall ]

\* No SetCache was created yet: the IndexMap as the sequence of its entries,
\* the size, and the last call with the keys it removed.
EmptySetCache ==
    [ map |-> << >>, size |-> 0, last |-> [op |-> "none", key |-> 0, removed |-> {}] ]

\* No CachedDbSetAccess was created yet: the IndexMap of its cache, the cache
\* size, the buckets of the database and the call each thread is in.
NoAccess == [created |-> FALSE, map |-> << >>, size |-> 0, db |-> EmptyFn, calls |-> EmptyFn]

\* No transaction was handed to the wallet yet.
NoWallet == [state |-> "none"]

IdleThread ==
    [ pc |-> "idle", hash |-> 0, npp |-> << >>, gd |-> << >>, level |-> 0,
      res |-> "none", batch |-> EmptyBatch ]

NoGuards == [tip |-> {}, relations |-> {}, statuses |-> {}, reach |-> {}, reachMode |-> "free"]

\* HeaderProcessor::new over an empty database, before the bootstrap routines.
InitState ==
    /\ mem = EmptyStores
    /\ db = EmptyStores
    /\ guards = NoGuards
    /\ th = [t \in Threads |-> IF t = Boot THEN [IdleThread EXCEPT !.pc = "origin"] ELSE IdleThread]
    /\ pending = EmptyFn
    /\ dependents = [h \in Hashes |-> {}]
    /\ spawned = [h \in Hashes |-> 0]
    /\ wpc = "recv"
    /\ sinkRes = << >>
    /\ sinkFwd = << >>
    /\ bodyChan = << >>
    /\ counters = [header_counts |-> 0, dep_counts |-> 0]
    /\ commitLog = << >>
    /\ ioFailed = {}
    /\ crashed = FALSE
    /\ boots = 1
    /\ am = EmptyDirectory
    /\ sc = EmptySetCache
    /\ sa = NoAccess

Init ==
    /\ cfg \in {[process_genesis |-> TRUE, badStage |-> s, origin_above |-> TRUE, low_level |-> FALSE] : s \in Stages}
               \cup {[process_genesis |-> FALSE, badStage |-> "ok", origin_above |-> o, low_level |-> FALSE] : o \in BOOLEAN}
    /\ InitState
    /\ wallet = NoWallet

\* ------------------------------------------------------------ store helpers
Has(f, h) == h \in DOMAIN f

\* Faulty variant of header_was_processed: the statuses store is not consulted.
StatusNotConsulted(h) == FALSE

\* header_was_processed: statuses_store.read().has(hash)
header_was_processed(h) == Has(mem.statuses, h)

\* A hash is admitted when its status is present and is not Invalid.
Admitted(stores, h) == Has(stores.statuses, h) /\ stores.statuses[h] # "Invalid"

\* Position of a hash in the order of hashes.  The value of ORIGIN is defined
\* outside the processor: it orders either above or below every block hash.
HashOrder(h) == IF h = ORIGIN /\ ~cfg.origin_above THEN 0 ELSE h

\* SortableBlock ordering: blue work first, then the hash.
SortableGreater(a, b) ==
    a[1] > b[1] \/ (a[1] = b[1] /\ HashOrder(a[2]) > HashOrder(b[2]))

SortableBlock(h) == <<blue_work(h), h>>

MaxSortable(S) == CHOOSE a \in S : \A b \in S : a = b \/ SortableGreater(a, b)

\* GhostdagManager::ghostdag(parents): the selected parent is the parent of
\* maximum blue work, ties broken by hash; the mergeset without the selected
\* parent is kept as the set of the other parents.
ghostdag(parents) ==
    IF parents = <<ORIGIN>>
    THEN [selected_parent |-> ORIGIN, mergeset |-> {}]
    ELSE LET sp == MaxSortable({SortableBlock(p) : p \in Range(parents)})[2]
         IN  [selected_parent |-> sp, mergeset |-> Range(parents) \ {sp}]

\* GhostdagManager::genesis_ghostdag_data
genesis_ghostdag_data == [selected_parent |-> ORIGIN, mergeset |-> {}]

\* Verdict of the validators on a header: the stage that rejects it.
Verdict(h) == IF h = 3 THEN cfg.badStage ELSE "ok"

\* A read guard of a store can be taken while no write guard is held.
CanRead(g) == g = {}

\* reachability_store.read(): shared with an upgradable guard, not with a writer
CanReadReach == guards.reachMode # "write"

\* WriteBatch applied by db.write(batch)
ApplyBatch(stores, h, b) ==
    [ stores EXCEPT
        !.ghostdag  = [l \in Levels |-> IF l \in DOMAIN b.ghostdag
                                        THEN (h :> b.ghostdag[l]) @@ stores.ghostdag[l]
                                        ELSE stores.ghostdag[l]],
        !.daa       = IF b.daa THEN @ \cup {h} ELSE @,
        !.headers   = IF b.headers THEN @ \cup {h} ELSE @,
        !.depth     = IF b.depth THEN @ \cup {h} ELSE @,
        !.tip       = IF b.tip # << >> THEN b.tip ELSE @,
        !.relations = [l \in Levels |-> IF l \in DOMAIN b.relations
                                        THEN (h :> b.relations[l]) @@ stores.relations[l]
                                        ELSE stores.relations[l]],
        !.statuses  = b.statuses @@ @,
        !.reach     = b.reach @@ @,
        !.hint      = IF b.hint # << >> THEN b.hint[1] ELSE @ ]

Release(t) ==
    [ tip       |-> guards.tip \ {t},
      relations |-> guards.relations \ {t},
      statuses  |-> guards.statuses \ {t},
      reach     |-> guards.reach \ {t},
      reachMode |-> IF t \in guards.reach THEN "free" ELSE guards.reachMode ]

\* --------------------------------------------------------------- bootstrap
\* process_origin_if_needed: one batch with ORIGIN at every level and the tip.
process_origin_if_needed ==
    /\ ~crashed
    /\ th[Boot].pc = "origin"
    /\ CanRead(guards.relations)
    /\ IF Has(mem.relations[0], ORIGIN)
       THEN UNCHANGED <<mem, db>>
       ELSE /\ CanRead(guards.tip)
            /\ LET new(stores) ==
                     [ stores EXCEPT
                         !.relations = [l \in Levels |-> (ORIGIN :> << >>) @@ stores.relations[l]],
                         !.tip = <<0, ORIGIN>> ]
               IN  /\ mem' = new(mem)
                   /\ db' = new(db)
    /\ th' = [th EXCEPT ![Boot].pc = "genesis"]
    /\ UNCHANGED <<cfg, guards, pending, dependents, spawned, wpc,
                   sinkRes, sinkFwd, bodyChan, counters, commitLog, crashed, ioFailed, boots, am, sc, sa, wallet>>

\* Faulty variant of GenesisTip: the tip is left to the comparison in commit_header.
GenesisTipKept(prev) == prev

\* The tip process_genesis_if_needed sets: SortableBlock::new(genesis_hash, 0).
GenesisTip(prev) == <<0, GENESIS>>

\* process_genesis_if_needed, up to the flush of the batch that sets the tip.
process_genesis_if_needed ==
    /\ ~crashed
    /\ th[Boot].pc = "genesis"
    /\ CanRead(guards.statuses)
    /\ IF ~cfg.process_genesis \/ header_was_processed(GENESIS)
       THEN /\ th' = [th EXCEPT ![Boot] = [IdleThread EXCEPT !.pc = "booted"]]
            /\ UNCHANGED <<mem, db>>
       ELSE /\ CanRead(guards.tip)
            /\ mem' = [mem EXCEPT !.tip = GenesisTip(@)]
            /\ db' = [db EXCEPT !.tip = GenesisTip(@)]
            /\ th' = [th EXCEPT ![Boot].pc = "pruning"]
    /\ UNCHANGED <<cfg, guards, pending, dependents, spawned, wpc,
                   sinkRes, sinkFwd, bodyChan, counters, commitLog, crashed, ioFailed, boots, am, sc, sa, wallet>>

\* process_genesis_if_needed, continued: the direct write of the pruning store
\* and the synthetic context handed to commit_header.
genesis_context ==
    /\ ~crashed
    /\ th[Boot].pc = "pruning"
    /\ mem' = [mem EXCEPT !.pruning = <<GENESIS, GENESIS, 0>>]
    /\ db' = [db EXCEPT !.pruning = <<GENESIS, GENESIS, 0>>]
    /\ th' = [th EXCEPT ![Boot] =
                [ pc |-> "append", hash |-> GENESIS,
                  npp |-> (0 :> <<ORIGIN>>),
                  gd |-> [l \in Levels |-> genesis_ghostdag_data],
                  level |-> max_block_level, res |-> "none", batch |-> EmptyBatch ]]
    /\ UNCHANGED <<cfg, guards, pending, dependents, spawned, wpc,
                   sinkRes, sinkFwd, bodyChan, counters, commitLog, crashed, ioFailed, boots, am, sc, sa, wallet>>

\* ------------------------------------------------------------ commit_header
InCommit == {"append", "stage", "tip", "rel", "setstatus", "reachcommit", "flush", "drop"}

is_genesis(h) == Len(direct_parents(h)) = 0

\* The reachability parent handed to add_block.
ReachabilityParentAlwaysOrigin(npp0, gd0) == ORIGIN

ReachabilityParent(npp0, gd0) ==
    IF Len(npp0) = 1 /\ npp0[1] = ORIGIN THEN ORIGIN ELSE gd0.selected_parent

\* The tip is replaced when the new header's pair strictly exceeds the previous one.
ShouldReplaceTip(new, prev) == SortableGreater(new, prev)

\* Faulty variant of RelationsParents: the direct parents are written at every level.
RelationsParentsUnfiltered(h, l) == IF is_genesis(h) THEN <<ORIGIN>> ELSE direct_parents(h)

\* The parent list written to relations at a level.
RelationsParents(h, l) ==
    IF is_genesis(h)
    THEN <<ORIGIN>>
    ELSE SelectSeq(parents_at_level(h, l), LAMBDA p : Has(mem.ghostdag[l], p))

\* Faulty variant of RelationLevels: relations are written at level 0 only.
RelationLevelZeroOnly(level) == {0}

\* The levels at which commit_header inserts relations: 0..=ctx.block_level.
RelationLevels(level) == 0..level

\* Faulty variant of KeptGuard: the guard is a temporary, released at the end of the statement.
DroppedGuard(t) == {}

\* Holders of a write guard that is kept in a local until the explicit drops.
KeptGuard(t) == {t}

\* Append-only stores: ghostdag per level, daa, headers, depth.
\* Faulty variant of CommitAppend: the stores are not asked whether the records exist.
CommitAppendOverwrites(t) ==
    LET h == th[t].hash
        lv == DOMAIN th[t].gd
        newHdr == TRUE
    IN  /\ ~crashed
        /\ th[t].pc = "append"
        /\ mem' = [mem EXCEPT
                     !.ghostdag = [l \in Levels |-> IF l \in lv THEN (h :> th[t].gd[l]) @@ @[l] ELSE @[l]],
                     !.daa = @ \cup {h},
                     !.headers = @ \cup {h},
                     !.depth = @ \cup {h}]
        /\ th' = [th EXCEPT ![t].pc = "stage",
                            ![t].batch = [@ EXCEPT !.ghostdag = [l \in lv |-> th[t].gd[l]],
                                                   !.daa = TRUE, !.headers = newHdr, !.depth = TRUE]]
        /\ UNCHANGED <<cfg, db, guards, pending, dependents, spawned, wpc,
                       sinkRes, sinkFwd, bodyChan, counters, commitLog, crashed, ioFailed, boots, am, sc, sa, wallet>>

CommitAppend(t) ==
    LET h == th[t].hash
        lv == {l \in DOMAIN th[t].gd : ~Has(mem.ghostdag[l], h)}
        newHdr == h \notin mem.headers
    IN  /\ ~crashed
        /\ th[t].pc = "append"
        /\ mem' = [mem EXCEPT
                     !.ghostdag = [l \in Levels |-> IF l \in lv THEN (h :> th[t].gd[l]) @@ @[l] ELSE @[l]],
                     !.daa = @ \cup {h},
                     !.headers = @ \cup {h},
                     !.depth = @ \cup {h}]
        /\ th' = [th EXCEPT ![t].pc = "stage",
                            ![t].batch = [@ EXCEPT !.ghostdag = [l \in lv |-> th[t].gd[l]],
                                                   !.daa = TRUE, !.headers = newHdr, !.depth = TRUE]]
        /\ UNCHANGED <<cfg, db, guards, pending, dependents, spawned, wpc,
                       sinkRes, sinkFwd, bodyChan, counters, commitLog, crashed, ioFailed, boots, am, sc, sa, wallet>>

\* Faulty variant of StagingGuardFree: the staging store is built on a plain
\* read guard, which any number of threads may share.
SharedReadFree == guards.reachMode # "write"

\* reachability_store.upgradable_read(): granted while no other thread holds
\* the upgradable (or write) guard.
StagingGuardFree == guards.reach = {}

\* StagingReachabilityStore::new(upgradable_read()) and add_block on the staging.
CommitStage(t) ==
    LET h == th[t].hash
        gd0 == th[t].gd[0]
        entry == [parent |-> ReachabilityParent(th[t].npp[0], gd0),
                  mergeset |-> {m \in gd0.mergeset : Has(mem.reach, m)}]
    IN  /\ ~crashed
        /\ th[t].pc = "stage"
        /\ StagingGuardFree
        /\ guards' = [guards EXCEPT !.reach = @ \cup {t}, !.reachMode = "upgradable"]
        /\ th' = [th EXCEPT ![t].pc = "tip",
                            ![t].batch.reach = IF Has(mem.reach, h) THEN EmptyFn ELSE (h :> entry)]
        /\ UNCHANGED <<cfg, mem, db, pending, dependents, spawned, wpc,
                       sinkRes, sinkFwd, bodyChan, counters, commitLog, crashed, ioFailed, boots, am, sc, sa, wallet>>

\* headers_selected_tip_store.write(); compare with the previous tip.
CommitTip(t) ==
    LET h == th[t].hash
        replace == ShouldReplaceTip(SortableBlock(h), mem.tip)
    IN  /\ ~crashed
        /\ th[t].pc = "tip"
        /\ guards.tip = {}
        /\ guards' = [guards EXCEPT !.tip = KeptGuard(t)]
        /\ mem' = [mem EXCEPT !.tip = IF replace THEN SortableBlock(h) ELSE @]
        /\ th' = [th EXCEPT ![t].pc = "rel",
                            ![t].batch.tip = IF replace THEN SortableBlock(h) ELSE << >>,
                            ![t].batch.hint = IF replace THEN <<h>> ELSE << >>]
        /\ UNCHANGED <<cfg, db, pending, dependents, spawned, wpc,
                       sinkRes, sinkFwd, bodyChan, counters, commitLog, crashed, ioFailed, boots, am, sc, sa, wallet>>

\* relations_stores.write(); insert at every level up to the block level.
CommitRelations(t) ==
    LET h == th[t].hash
        lv == {l \in RelationLevels(th[t].level) : ~Has(mem.relations[l], h)}
    IN  /\ ~crashed
        /\ th[t].pc = "rel"
        /\ guards.relations = {}
        /\ guards' = [guards EXCEPT !.relations = KeptGuard(t)]
        /\ mem' = [mem EXCEPT !.relations =
                     [l \in Levels |-> IF l \in lv THEN (h :> RelationsParents(h, l)) @@ @[l] ELSE @[l]]]
        /\ th' = [th EXCEPT ![t].pc = "setstatus",
                            ![t].batch.relations = [l \in lv |-> RelationsParents(h, l)]]
        /\ UNCHANGED <<cfg, db, pending, dependents, spawned, wpc,
                       sinkRes, sinkFwd, bodyChan, counters, commitLog, crashed, ioFailed, boots, am, sc, sa, wallet>>

\* statuses_store.set_batch(.., StatusHeaderOnly), keeping the write guard.
CommitStatus(t) ==
    LET h == th[t].hash
    IN  /\ ~crashed
        /\ th[t].pc = "setstatus"
        /\ guards.statuses = {}
        /\ guards' = [guards EXCEPT !.statuses = KeptGuard(t)]
        /\ mem' = [mem EXCEPT !.statuses = (h :> "HeaderOnly") @@ @]
        /\ th' = [th EXCEPT ![t].pc = "reachcommit",
                            ![t].batch.statuses = (h :> "HeaderOnly")]
        /\ UNCHANGED <<cfg, db, pending, dependents, spawned, wpc,
                       sinkRes, sinkFwd, bodyChan, counters, commitLog, crashed, ioFailed, boots, am, sc, sa, wallet>>

\* staging.commit(&mut batch): upgrade to a write guard and write the staged changes.
CommitReach(t) ==
    /\ ~crashed
    /\ th[t].pc = "reachcommit"
    /\ guards' = [guards EXCEPT !.reachMode = "write"]
    /\ mem' = [mem EXCEPT !.reach = th[t].batch.reach @@ @,
                          !.hint = IF th[t].batch.hint # << >> THEN th[t].batch.hint[1] ELSE @]
    /\ th' = [th EXCEPT ![t].pc = "flush"]
    /\ UNCHANGED <<cfg, db, pending, dependents, spawned, wpc,
                   sinkRes, sinkFwd, bodyChan, counters, commitLog, crashed, ioFailed, boots, am, sc, sa, wallet>>

\* db.write(batch)
CommitFlush(t) ==
    /\ ~crashed
    /\ th[t].pc = "flush"
    /\ db' = ApplyBatch(db, th[t].hash, th[t].batch)
    /\ commitLog' = Append(commitLog, th[t].hash)
    /\ th' = [th EXCEPT ![t].pc = "drop"]
    /\ UNCHANGED <<cfg, mem, guards, pending, dependents, spawned, wpc,
                   sinkRes, sinkFwd, bodyChan, counters, crashed, ioFailed, boots, am, sc, sa, wallet>>

\* The explicit drops of the four guards; process_header then reports the
\* counters and returns StatusHeaderOnly, the bootstrap routine returns.
CommitDrop(t) ==
    /\ ~crashed
    /\ th[t].pc = "drop"
    /\ guards' = Release(t)
    /\ IF t = Boot
       THEN /\ th' = [th EXCEPT ![t] = [IdleThread EXCEPT !.pc = "booted"]]
            /\ UNCHANGED counters
       ELSE /\ th' = [th EXCEPT ![t].pc = "end", ![t].res = "HeaderOnly", ![t].batch = EmptyBatch,
                                ![t].npp = << >>, ![t].gd = << >>, ![t].level = 0]
            /\ counters' = [header_counts |-> counters.header_counts + 1,
                            dep_counts |-> counters.dep_counts + Len(direct_parents(th[t].hash))]
    /\ UNCHANGED <<cfg, mem, db, pending, dependents, spawned, wpc,
                   sinkRes, sinkFwd, bodyChan, commitLog, crashed, ioFailed, boots, am, sc, sa, wallet>>

\* ------------------------------------------------------- dependency manager
\* A parent is ready for its dependents once it is admitted.
ParentsAdmitted(h) == \A p \in Range(direct_parents(h)) : Admitted(mem, p)

\* register(block, sinks): the new pending entries, the new dependents and the result.
register(h, sink) ==
    IF Has(pending, h)
    THEN [ pending    |-> [pending EXCEPT ![h].sinks = @ \cup {sink}],
           dependents |-> dependents,
           ready      |-> FALSE ]
    ELSE [ pending    |-> (h :> [sinks |-> {sink}, running |-> FALSE]) @@ pending,
           dependents |-> [p \in Hashes |->
                             IF p \in Range(direct_parents(h)) /\ ~Admitted(mem, p)
                             THEN dependents[p] \cup {h} ELSE dependents[p]],
           ready      |-> ParentsAdmitted(h) ]

\* try_begin(hash): the entry is handed out once; none when it is absent or running.
try_begin(h) == Has(pending, h) /\ ~pending[h].running

\* end(hash, ..): the dependents released by this completion.
ReleasedDependents(h) ==
    {d \in dependents[h] : Has(pending, d) /\ d # h /\ ParentsAdmitted(d)}

\* --------------------------------------------------------------- the worker
\* Faulty variant of ShouldSpawn: the test of register's result is inverted.
SpawnUnlessRegistered(registered) == ~registered

\* Faulty variant of ShouldSpawn: every registered task is spawned at once.
SpawnAlways(registered) == TRUE

\* worker: a registered task is spawned on the pool iff register returned true.
ShouldSpawn(registered) == registered

\* worker, BlockTask::Process(block, result_transmitters)
WorkerProcess(h) ==
    LET sink == Len(sinkRes) + 1
        r == register(h, sink)
    IN  /\ ~crashed
        /\ th[Boot].pc = "booted"
        /\ wpc = "recv"
        /\ Len(sinkRes) < MaxSubmit
        /\ CanRead(guards.statuses)
        /\ sinkRes' = Append(sinkRes, 0)
        /\ sinkFwd' = Append(sinkFwd, 0)
        /\ pending' = r.pending
        /\ dependents' = r.dependents
        /\ spawned' = IF ShouldSpawn(r.ready) THEN [spawned EXCEPT ![h] = @ + 1] ELSE spawned
        /\ UNCHANGED <<cfg, mem, db, guards, th, wpc, bodyChan, counters, commitLog, crashed, ioFailed, boots, am, sc, sa, wallet>>

\* worker, BlockTask::Exit: leave the receive loop.
WorkerExit ==
    /\ ~crashed
    /\ th[Boot].pc = "booted"
    /\ wpc = "recv"
    /\ wpc' = "wait_for_idle"
    /\ UNCHANGED <<cfg, mem, db, guards, th, pending, dependents, spawned, 
                   sinkRes, sinkFwd, bodyChan, counters, commitLog, crashed, ioFailed, boots, am, sc, sa, wallet>>

\* wait_for_idle: returns once no entry remains.
wait_for_idle == DOMAIN pending = {}

\* Faulty variant of ExitGuard: Exit is passed on without waiting for the pool.
ExitAtOnce == TRUE

\* worker: the exit signal is passed on after wait_for_idle has returned.
ExitGuard == wait_for_idle

\* worker: wait_for_idle, then BlockTask::Exit is sent on body_sender.
WorkerWaitIdle ==
    /\ ~crashed
    /\ wpc = "wait_for_idle"
    /\ ExitGuard
    /\ bodyChan' = Append(bodyChan, 0)
    /\ wpc' = "done"
    /\ UNCHANGED <<cfg, mem, db, guards, th, pending, dependents, spawned, 
                   sinkRes, sinkFwd, counters, commitLog, crashed, ioFailed, boots, am, sc, sa, wallet>>

\* -------------------------------------------------------------- queue_block
\* The pool runs a spawned queue_block(hash) on a free thread.
FreeThread == CHOOSE t \in Pool : th[t].pc = "idle" /\ \A u \in Pool : th[u].pc = "idle" => t <= u

QueueBlock(h) ==
    /\ ~crashed
    /\ spawned[h] > 0
    /\ \E t \in Pool : th[t].pc = "idle"
    /\ spawned' = [spawned EXCEPT ![h] = @ - 1]
    /\ IF try_begin(h)
       THEN /\ pending' = [pending EXCEPT ![h].running = TRUE]
            /\ th' = [th EXCEPT ![FreeThread].pc = "status", ![FreeThread].hash = h]
       ELSE UNCHANGED <<pending, th>>
    /\ UNCHANGED <<cfg, mem, db, guards, dependents, wpc,
                   sinkRes, sinkFwd, bodyChan, counters, commitLog, crashed, ioFailed, boots, am, sc, sa, wallet>>

\* Faulty variant of ShortCircuits: only a known-invalid hash is short-circuited.
ShortCircuitsInvalidOnly(h) == Has(mem.statuses, h) /\ mem.statuses[h] = "Invalid"

\* process_header returns at once when the hash has a status.
ShortCircuits(h) == Has(mem.statuses, h)

\* Faulty variant of ShortCircuitResult: every stored status is returned as a success.
ShortCircuitAlwaysOk(status) == status

\* The result of the short-circuit: Err(KnownInvalid) for StatusInvalid, Ok(status) otherwise.
ShortCircuitResult(status) == IF status = "Invalid" THEN "KnownInvalid" ELSE status

\* process_header: the status short-circuit.
ProcessStatus(t) ==
    LET h == th[t].hash
    IN  /\ ~crashed
        /\ th[t].pc = "status"
        /\ CanRead(guards.statuses)
        /\ th' = IF ShortCircuits(h)
                 THEN [th EXCEPT ![t].pc = "end",
                                 ![t].res = ShortCircuitResult(mem.statuses[h])]
                 ELSE [th EXCEPT ![t].pc = "ctx"]
        /\ UNCHANGED <<cfg, mem, db, guards, pending, dependents, spawned, wpc,
                       sinkRes, sinkFwd, bodyChan, counters, commitLog, crashed, ioFailed, boots, am, sc, sa, wallet>>

\* non_pruned_parents of the processing context.
\* Faulty variant of NonPrunedParents: genesis stands in for a parent list that
\* the filter emptied.
NonPrunedParentsGenesisFallback(h, l) ==
    IF is_genesis(h)
    THEN <<ORIGIN>>
    ELSE LET filtered == SelectSeq(parents_at_level(h, l), LAMBDA p : Has(mem.relations[l], p))
         IN  IF filtered = << >> THEN <<GENESIS>> ELSE filtered

NonPrunedParents(h, l) ==
    IF is_genesis(h)
    THEN <<ORIGIN>>
    ELSE LET filtered == SelectSeq(parents_at_level(h, l), LAMBDA p : Has(mem.relations[l], p))
         IN  IF filtered = << >> THEN <<ORIGIN>> ELSE filtered

\* The stage at which process_header leaves with an error without writing a
\* status ("none" when it does not): the `?` on the pre-GHOSTDAG and pre-PoW checks.
ErrorWithoutStatus(verdict, is_trusted) ==
    IF verdict = "pre_ghostdag" THEN TRUE
    ELSE IF is_trusted THEN FALSE
    ELSE verdict = "pre_pow"

\* process_header: context, validations and GHOSTDAG.
ProcessCtx(t) ==
    LET h == th[t].hash
        is_trusted == ghostdag_data_option(h)
        v == Verdict(h)
        level == pow_level(h)
        npp == [l \in Levels |-> NonPrunedParents(h, l)]
        gd == [l \in 0..level |-> IF Has(mem.ghostdag[l], h) THEN mem.ghostdag[l][h]
                                   ELSE ghostdag(npp[l])]
    IN  /\ ~crashed
        /\ th[t].pc = "ctx"
        /\ CanRead(guards.relations)
        /\ CanReadReach
        /\ th' = IF ErrorWithoutStatus(v, is_trusted)
                 THEN [th EXCEPT ![t].pc = "end", ![t].res = "RuleError"]
                 ELSE [th EXCEPT ![t].pc = IF ~is_trusted /\ v = "post_pow" THEN "invalid" ELSE "append",
                                 ![t].npp = npp, ![t].gd = gd, ![t].level = level]
        /\ UNCHANGED <<cfg, mem, db, guards, pending, dependents, spawned, wpc,
                       sinkRes, sinkFwd, bodyChan, counters, commitLog, crashed, ioFailed, boots, am, sc, sa, wallet>>

\* Faulty variant of MarkInvalid: the header is put in the headers store before
\* the outcome of post_pow_validation is known.
MarkInvalidKeepsHeader(t) ==
    LET h == th[t].hash
    IN  /\ ~crashed
        /\ th[t].pc = "invalid"
        /\ CanRead(guards.statuses)
        /\ mem' = [mem EXCEPT !.statuses = (h :> "Invalid") @@ @, !.headers = @ \cup {h}]
        /\ db' = [db EXCEPT !.statuses = (h :> "Invalid") @@ @, !.headers = @ \cup {h}]
        /\ th' = [th EXCEPT ![t].pc = "end", ![t].res = "RuleError",
                            ![t].npp = << >>, ![t].gd = << >>, ![t].level = 0]
        /\ UNCHANGED <<cfg, guards, pending, dependents, spawned, wpc,
                       sinkRes, sinkFwd, bodyChan, counters, commitLog, crashed, ioFailed, boots, am, sc, sa, wallet>>

\* process_header: post_pow_validation failed; statuses_store.write().set(.., StatusInvalid).
MarkInvalid(t) ==
    LET h == th[t].hash
    IN  /\ ~crashed
        /\ th[t].pc = "invalid"
        /\ CanRead(guards.statuses)
        /\ mem' = [mem EXCEPT !.statuses = (h :> "Invalid") @@ @]
        /\ db' = [db EXCEPT !.statuses = (h :> "Invalid") @@ @]
        /\ th' = [th EXCEPT ![t].pc = "end", ![t].res = "RuleError",
                            ![t].npp = << >>, ![t].gd = << >>, ![t].level = 0]
        /\ UNCHANGED <<cfg, guards, pending, dependents, spawned, wpc,
                       sinkRes, sinkFwd, bodyChan, counters, commitLog, crashed, ioFailed, boots, am, sc, sa, wallet>>

\* queue_block: the callback of task_manager.end sends the result to every
\* transmitter, or hands the task on to the body processor.
SendsResult(res, h) == res \in {"KnownInvalid", "RuleError"} \/ is_header_only(h)

\* Faulty variant of Forwards: every successful task is handed on, header-only or not.
ForwardsOnSuccess(res, h) == res \notin {"KnownInvalid", "RuleError"}

Forwards(res, h) == ~SendsResult(res, h)

\* Faulty variant of DependentsToSpawn: the hashes end returned are not spawned.
SpawnNoDependents(h) == {}

\* Faulty variant of DependentsToSpawn: every waiting hash is spawned, ready or not.
SpawnAllDependents(h) == dependents[h]

\* queue_block: a queue_block task is spawned for every hash task_manager.end returned.
DependentsToSpawn(h) == ReleasedDependents(h)

\* queue_block: task_manager.end and the spawning of the released dependents.
End(t) ==
    LET h == th[t].hash
        sinks == pending[h].sinks
        deps == DependentsToSpawn(h)
    IN  /\ ~crashed
        /\ th[t].pc = "end"
        /\ CanRead(guards.statuses)
        /\ sinkRes' = [i \in DOMAIN sinkRes |->
                         IF i \in sinks /\ SendsResult(th[t].res, h) THEN sinkRes[i] + 1 ELSE sinkRes[i]]
        /\ sinkFwd' = [i \in DOMAIN sinkFwd |->
                         IF i \in sinks /\ Forwards(th[t].res, h) THEN sinkFwd[i] + 1 ELSE sinkFwd[i]]
        /\ bodyChan' = IF Forwards(th[t].res, h) THEN Append(bodyChan, h) ELSE bodyChan
        /\ pending' = [x \in DOMAIN pending \ {h} |-> pending[x]]
        /\ dependents' = [dependents EXCEPT ![h] = {}]
        /\ spawned' = [d \in Hashes |-> IF d \in deps THEN spawned[d] + 1 ELSE spawned[d]]
        /\ th' = [th EXCEPT ![t] = IdleThread]
        /\ UNCHANGED <<cfg, mem, db, guards, wpc, counters, commitLog, crashed, ioFailed, boots, am, sc, sa, wallet>>

\* The process is killed: the in-memory state is lost, db is what a restart finds.
Crash ==
    /\ ~crashed
    /\ crashed' = TRUE
    /\ mem' = db
    /\ guards' = NoGuards
    /\ th' = [t \in Threads |-> IdleThread]
    /\ pending' = EmptyFn
    /\ dependents' = [h \in Hashes |-> {}]
    /\ spawned' = [h \in Hashes |-> 0]
    /\ wpc' = "recv"
    /\ counters' = [header_counts |-> 0, dep_counts |-> 0]
    /\ UNCHANGED <<cfg, db, sinkRes, sinkFwd, bodyChan, commitLog, ioFailed, boots, am, sc, sa, wallet>>

Next ==
    \/ process_origin_if_needed
    \/ process_genesis_if_needed
    \/ genesis_context
    \/ \E t \in Threads : CommitAppend(t)
    \/ \E t \in Threads : CommitStage(t)
    \/ \E t \in Threads : CommitTip(t)
    \/ \E t \in Threads : CommitRelations(t)
    \/ \E t \in Threads : CommitStatus(t)
    \/ \E t \in Threads : CommitReach(t)
    \/ \E t \in Threads : CommitFlush(t)
    \/ \E t \in Threads : CommitDrop(t)
    \/ \E h \in Hashes : WorkerProcess(h)
    \/ WorkerExit
    \/ WorkerWaitIdle
    \/ \E h \in Hashes : QueueBlock(h)
    \/ \E t \in Pool : ProcessStatus(t)
    \/ \E t \in Pool : ProcessCtx(t)
    \/ \E t \in Pool : MarkInvalid(t)
    \/ \E t \in Pool : End(t)
    \/ Crash

Spec == Init /\ [][Next]_vars

\* The steps of the bootstrap, of the worker after Exit and of the pool: what
\* the process does by itself once its threads are scheduled.
Internal ==
    \/ process_origin_if_needed
    \/ process_genesis_if_needed
    \/ genesis_context
    \/ \E t \in Threads : CommitAppend(t)
    \/ \E t \in Threads : CommitStage(t)
    \/ \E t \in Threads : CommitTip(t)
    \/ \E t \in Threads : CommitRelations(t)
    \/ \E t \in Threads : CommitStatus(t)
    \/ \E t \in Threads : CommitReach(t)
    \/ \E t \in Threads : CommitFlush(t)
    \/ \E t \in Threads : CommitDrop(t)
    \/ WorkerWaitIdle
    \/ \E h \in Hashes : QueueBlock(h)
    \/ \E t \in Pool : ProcessStatus(t)
    \/ \E t \in Pool : ProcessCtx(t)
    \/ \E t \in Pool : MarkInvalid(t)
    \/ \E t \in Pool : End(t)

\* Runs without a crash; the upstream decides what it sends and when.
NextLive ==
    \/ Internal
    \/ \E h \in Hashes : WorkerProcess(h)
    \/ WorkerExit

\* Fair scheduling: a thread that can take a step is eventually run, and a
\* lock that is free is eventually granted.
FairSpec == Init /\ [][NextLive]_vars /\ WF_vars(Internal)

\* ------------------------------------------------------ failing store calls
\* The lock thread t needs for the store operation at its program point is granted.
LockGranted(t) ==
    CASE th[t].pc \in {"status", "invalid"} -> CanRead(guards.statuses)
      [] th[t].pc = "ctx" -> CanRead(guards.relations)
      [] th[t].pc = "stage" -> StagingGuardFree
      [] th[t].pc = "tip" -> guards.tip = {}
      [] th[t].pc = "rel" -> guards.relations = {}
      [] th[t].pc = "setstatus" -> guards.statuses = {}
      [] OTHER -> TRUE

\* Program points of process_header and commit_header that call a store and
\* unwrap its result.
StoreCallPoints ==
    {"status", "ctx", "invalid", "append", "stage", "tip", "rel", "setstatus", "reachcommit", "flush"}

\* A store operation of thread t returns an error.  Every store result is
\* unwrapped, so the thread panics.  What the pool does with a panicking task
\* is decided where the pool is built: the process is terminated, or the task
\* is unwound (guards and the unwritten batch dropped, task_manager.end not
\* called) and the thread goes back to the pool.
StoreFailure(t) ==
    LET h == th[t].hash
    IN  /\ ~crashed
        /\ th[t].pc \in StoreCallPoints
        /\ LockGranted(t)
        /\ Cardinality(ioFailed) < MaxIoFailures
        /\ ioFailed' = ioFailed \cup {h}
        /\ \/ /\ crashed' = TRUE
              /\ mem' = db
              /\ guards' = NoGuards
              /\ th' = [u \in Threads |-> IdleThread]
              /\ pending' = EmptyFn
              /\ dependents' = [x \in Hashes |-> {}]
              /\ spawned' = [x \in Hashes |-> 0]
              /\ wpc' = "recv"
              /\ counters' = [header_counts |-> 0, dep_counts |-> 0]
           \/ /\ guards' = Release(t)
              /\ th' = [th EXCEPT ![t] = IdleThread]
              /\ UNCHANGED <<mem, pending, dependents, spawned, wpc, counters, crashed>>
        /\ UNCHANGED <<cfg, db, sinkRes, sinkFwd, bodyChan, commitLog, boots, am, sc, sa, wallet>>

NextIO ==
    \/ Next
    \/ \E t \in Pool : StoreFailure(t)

SpecIO == Init /\ [][NextIO]_vars

\* ------------------------------------------------- repeated bootstrap calls
\* process_origin_if_needed and process_genesis_if_needed are public: the owner
\* of the processor calls the pair again once the previous call has returned.
Rebootstrap ==
    /\ ~crashed
    /\ th[Boot].pc = "booted"
    /\ boots < MaxBoots
    /\ boots' = boots + 1
    /\ th' = [th EXCEPT ![Boot].pc = "origin"]
    /\ UNCHANGED <<cfg, mem, db, guards, pending, dependents, spawned, wpc, sinkRes,
                   sinkFwd, bodyChan, counters, commitLog, crashed, ioFailed, am, sc, sa, wallet>>

NextBoot ==
    \/ Next
    \/ Rebootstrap

SpecBoot == Init /\ [][NextBoot]_vars

\* ------------------------------------------------------ concurrent bootstrap
\* The two bootstrap routines are public and take the processor by shared
\* reference: here process_origin_if_needed is called by a second thread while
\* the bootstrap thread is in process_genesis_if_needed, on an empty database.
\* process_origin_if_needed is followed statement by statement.
OriginCaller == 1

\* relations_stores.read()[0].has(ORIGIN): return when ORIGIN is present.
OriginCheck(t) ==
    /\ ~crashed
    /\ th[t].pc = "origin_check"
    /\ CanRead(guards.relations)
    /\ th' = [th EXCEPT ![t] = IF Has(mem.relations[0], ORIGIN)
                               THEN IdleThread
                               ELSE [IdleThread EXCEPT !.pc = "origin_rel"]]
    /\ UNCHANGED <<cfg, mem, db, guards, pending, dependents, spawned, wpc,
                   sinkRes, sinkFwd, bodyChan, counters, commitLog, crashed, ioFailed, boots, am, sc, sa, wallet>>

\* relations_stores.write(), then insert_batch of ORIGIN at every level.
OriginRelations(t) ==
    /\ ~crashed
    /\ th[t].pc = "origin_rel"
    /\ guards.relations = {}
    /\ guards' = [guards EXCEPT !.relations = KeptGuard(t)]
    /\ mem' = [mem EXCEPT !.relations = [l \in Levels |-> (ORIGIN :> << >>) @@ @[l]]]
    /\ th' = [th EXCEPT ![t].pc = "origin_tip"]
    /\ UNCHANGED <<cfg, db, pending, dependents, spawned, wpc,
                   sinkRes, sinkFwd, bodyChan, counters, commitLog, crashed, ioFailed, boots, am, sc, sa, wallet>>

\* headers_selected_tip_store.write(), then set_batch of (ORIGIN, 0).
OriginTip(t) ==
    /\ ~crashed
    /\ th[t].pc = "origin_tip"
    /\ guards.tip = {}
    /\ guards' = [guards EXCEPT !.tip = KeptGuard(t)]
    /\ mem' = [mem EXCEPT !.tip = <<0, ORIGIN>>]
    /\ th' = [th EXCEPT ![t].pc = "origin_flush"]
    /\ UNCHANGED <<cfg, db, pending, dependents, spawned, wpc,
                   sinkRes, sinkFwd, bodyChan, counters, commitLog, crashed, ioFailed, boots, am, sc, sa, wallet>>

\* db.write(batch) and the drops of the two guards.
OriginFlush(t) ==
    /\ ~crashed
    /\ th[t].pc = "origin_flush"
    /\ db' = [db EXCEPT !.relations = [l \in Levels |-> (ORIGIN :> << >>) @@ @[l]],
                        !.tip = <<0, ORIGIN>>]
    /\ guards' = Release(t)
    /\ th' = [th EXCEPT ![t] = IdleThread]
    /\ UNCHANGED <<cfg, mem, pending, dependents, spawned, wpc,
                   sinkRes, sinkFwd, bodyChan, counters, commitLog, crashed, ioFailed, boots, am, sc, sa, wallet>>

InitConcurrentBoot ==
    /\ cfg \in {[process_genesis |-> TRUE, badStage |-> s, origin_above |-> TRUE, low_level |-> FALSE] :
                   s \in {"ok", "post_pow"}}
    /\ mem = EmptyStores
    /\ db = EmptyStores
    /\ guards = NoGuards
    /\ th = [t \in Threads |-> IF t = Boot THEN [IdleThread EXCEPT !.pc = "genesis"]
                               ELSE IF t = OriginCaller THEN [IdleThread EXCEPT !.pc = "origin_check"]
                               ELSE IdleThread]
    /\ pending = EmptyFn
    /\ dependents = [h \in Hashes |-> {}]
    /\ spawned = [h \in Hashes |-> 0]
    /\ wpc = "recv"
    /\ sinkRes = << >>
    /\ sinkFwd = << >>
    /\ bodyChan = << >>
    /\ counters = [header_counts |-> 0, dep_counts |-> 0]
    /\ commitLog = << >>
    /\ ioFailed = {}
    /\ crashed = FALSE
    /\ boots = 1
    /\ am = EmptyDirectory
    /\ sc = EmptySetCache
    /\ sa = NoAccess
    /\ wallet = NoWallet

NextConcurrentBoot ==
    \/ OriginCheck(OriginCaller)
    \/ OriginRelations(OriginCaller)
    \/ OriginTip(OriginCaller)
    \/ OriginFlush(OriginCaller)
    \/ process_genesis_if_needed
    \/ genesis_context
    \/ \E t \in Threads : CommitAppend(t)
    \/ \E t \in Threads : CommitStage(t)
    \/ \E t \in Threads : CommitTip(t)
    \/ \E t \in Threads : CommitRelations(t)
    \/ \E t \in Threads : CommitStatus(t)
    \/ \E t \in Threads : CommitReach(t)
    \/ \E t \in Threads : CommitFlush(t)
    \/ \E t \in Threads : CommitDrop(t)
    \/ \E h \in Hashes : WorkerProcess(h)
    \/ WorkerExit
    \/ WorkerWaitIdle
    \/ \E h \in Hashes : QueueBlock(h)
    \/ \E t \in Pool : ProcessStatus(t)
    \/ \E t \in Pool : ProcessCtx(t)
    \/ \E t \in Pool : MarkInvalid(t)
    \/ \E t \in Pool : End(t)
    \/ Crash

SpecConcurrentBoot == InitConcurrentBoot /\ [][NextConcurrentBoot]_vars

\* ----------------------------------------------------- pruning-proof seeding
\* The header the pruning-proof applier hands in as a trusted one.
ProofHeader == 4

\* GhostdagData the applier computed inside the proof, where the parents of the
\* header are not part of the proof.
ProofGhostdag == [selected_parent |-> ORIGIN, mergeset |-> {}]

SeedStores(stores, ls, hd) ==
    [stores EXCEPT
        !.ghostdag = [l \in Levels |-> IF l \in ls THEN (ProofHeader :> ProofGhostdag) @@ @[l] ELSE @[l]],
        !.headers = IF hd THEN @ \cup {ProofHeader} ELSE @]

\* Pruning-proof application, before any block is submitted: GhostdagData of
\* the proof header at some levels and/or its header record are stored.
ApplyPruningProof ==
    /\ ~crashed
    /\ th[Boot].pc = "booted"
    /\ Len(sinkRes) = 0
    /\ pending = EmptyFn
    /\ ProofHeader \notin mem.headers
    /\ \A l \in Levels : ~Has(mem.ghostdag[l], ProofHeader)
    /\ \E ls \in SUBSET (0..pow_level(ProofHeader)), hd \in BOOLEAN :
          /\ ls # {} \/ hd
          /\ mem' = SeedStores(mem, ls, hd)
          /\ db' = SeedStores(db, ls, hd)
    /\ UNCHANGED <<cfg, guards, th, pending, dependents, spawned, wpc, sinkRes, sinkFwd,
                   bodyChan, counters, commitLog, crashed, ioFailed, boots, am, sc, sa, wallet>>

\* The processor over a DAG in which header 2 is of level 0 or of level 1, with
\* pruning-proof seeding; genesis is bootstrapped or, with process_genesis off,
\* submitted like any header (header 3 then fails post_pow_validation).
InitProof ==
    /\ cfg \in {[process_genesis |-> TRUE, badStage |-> "ok", origin_above |-> TRUE, low_level |-> b] : b \in BOOLEAN}
               \cup {[process_genesis |-> FALSE, badStage |-> "post_pow", origin_above |-> TRUE, low_level |-> FALSE]}
    /\ InitState
    /\ wallet = NoWallet

NextProof == Next \/ ApplyPruningProof

SpecProof == InitProof /\ [][NextProof]_vars

\* ============================================================ address manager
\* components/addressmanager/src/lib.rs.  The manager sits behind a Mutex, so
\* every call is one step.  NetAddress, AddressKey and the two database stores
\* are defined in the `stores` module of the crate.
IPs == 1..2
Ports == 1..2
NetAddresses == [ip : IPs, port : Ports]

\* Values of unix_now (ms) the clock takes: both sides of the 24 hour limit.
Times == {0, 1, MAX_BANNED_TIME + 1, MAX_BANNED_TIME + 2}

\* AddressKey::from(NetAddress) and AddressKey::is_ip
AddressKey(address) == <<address.ip, address.port>>
is_ip(key, ip) == key[1] = ip

Without(f, k) == [x \in DOMAIN f \ {k} |-> f[x]]

\* The not-banned store with its in-memory copy, as a value.
TheStore == [addresses |-> am.addresses, db |-> am.db]

\* Store::has, Store::get
Store_has(address) == AddressKey(address) \in DOMAIN am.addresses
Store_get(address) == am.addresses[AddressKey(address)]

\* Store::remove_by_key: the map entry, then the database entry.
Store_remove_by_key(st, key) ==
    [addresses |-> Without(st.addresses, key), db |-> Without(st.db, key)]

\* Faulty variant of EvictionCandidates: an entry of minimal count is chosen.
LeastFailedEntries(m) ==
    {k \in DOMAIN m : \A j \in DOMAIN m :
        m[k].connection_failed_count <= m[j].connection_failed_count}

\* keep_limit: max_by on connection_failed_count; which of several maximal
\* entries comes out depends on the iteration order of the HashMap.
EvictionCandidates(m) ==
    {k \in DOMAIN m : \A j \in DOMAIN m :
        m[j].connection_failed_count <= m[k].connection_failed_count}

\* keep_limit: the loop condition.
OverLimit(len) == len > MAX_ADDRESSES

\* Store::keep_limit: the stores it may leave.
RECURSIVE Store_keep_limit(_)
Store_keep_limit(st) ==
    IF OverLimit(Cardinality(DOMAIN st.addresses))
    THEN UNION {Store_keep_limit(Store_remove_by_key(st, k)) : k \in EvictionCandidates(st.addresses)}
    ELSE {st}

\* Faulty variant of Store_set: the in-memory copy alone is updated.
Store_set_memory_only(st, address, count) ==
    LET key == AddressKey(address)
        entry == [address |-> address, connection_failed_count |-> count]
    IN  {[addresses |-> (key :> entry) @@ st.addresses, db |-> st.db]}

\* Store::set: the entry keeps the address already stored under the key; the
\* database is written, then the map, then keep_limit runs.
Store_set(st, address, count) ==
    LET key == AddressKey(address)
        entry == [ address |-> IF key \in DOMAIN st.addresses
                               THEN st.addresses[key].address ELSE address,
                   connection_failed_count |-> count ]
    IN  Store_keep_limit([addresses |-> (key :> entry) @@ st.addresses,
                          db |-> (key :> entry) @@ st.db])

\* Store::remove
Store_remove(st, address) == Store_remove_by_key(st, AddressKey(address))

\* Faulty variant of Store_remove_by_ip: the entry of one port is removed.
Store_remove_first_of_ip(st, ip) ==
    LET ks == {k \in DOMAIN st.addresses : is_ip(k, ip)}
    IN  IF ks = {} THEN st ELSE Store_remove_by_key(st, CHOOSE k \in ks : TRUE)

\* Store::remove_by_ip: remove_by_key for every key of the map with this IP.
Store_remove_by_ip(st, ip) ==
    LET ks == {k \in DOMAIN st.addresses : is_ip(k, ip)}
    IN  [ addresses |-> [k \in DOMAIN st.addresses \ ks |-> st.addresses[k]],
          db |-> [k \in DOMAIN st.db \ ks |-> st.db[k]] ]

\* The sampling weight of an entry: 64^(MAX_CONNECTION_FAILED_COUNT + 1 - count).
Weight(count) == 64 ^ (MAX_CONNECTION_FAILED_COUNT + 1 - count)

\* Faulty variant of AfterDraw: the drawn index keeps its weight.
WeightKept(weights, i) == weights

\* get_randomized_addresses: weights[i] = 0 after index i was drawn.
AfterDraw(weights, i) == [weights EXCEPT ![i] = 0]

\* The loop of get_randomized_addresses: n draws from WeightedIndex::new(weights),
\* which fails when no weight is positive and never draws an index of weight 0.
\* The outcomes, over all draws: the indexes in the order drawn, or a failure.
RECURSIVE Draws(_, _)
Draws(weights, n) ==
    IF n = 0
    THEN {[ok |-> TRUE, list |-> << >>]}
    ELSE LET positive == {i \in DOMAIN weights : weights[i] > 0}
         IN  IF positive = {}
             THEN {[ok |-> FALSE, list |-> << >>]}
             ELSE UNION {{[ok |-> r.ok, list |-> <<i>> \o r.list] :
                             r \in Draws(AfterDraw(weights, i), n - 1)} : i \in positive}

\* Store::get_randomized_addresses(exceptions): the possible results.
Store_get_randomized_addresses(exceptions) ==
    LET exceptionKeys == {AddressKey(e) : e \in exceptions}
        kept == DOMAIN am.addresses \ exceptionKeys
        weights == [k \in kept |-> Weight(am.addresses[k].connection_failed_count)]
    IN  {[ok |-> r.ok, list |-> [i \in DOMAIN r.list |-> am.addresses[r.list[i]].address]] :
            r \in Draws(weights, Cardinality(kept))}

\* What a call leaves of the header processor and of the set cache.
AMFrame ==
    UNCHANGED <<cfg, mem, db, guards, th, pending, dependents, spawned, wpc, sinkRes,
                sinkFwd, bodyChan, counters, commitLog, crashed, ioFailed, boots, sc, sa, wallet>>

Call(op, arg, res) == [op |-> op, arg |-> arg, res |-> res, from_stored |-> FALSE, failures |-> 0]

\* The run of mark_connection_failure calls on one address that a call on
\* this address continues: whether the address was stored when the run began,
\* and the number of calls made in it (counted up to one above the limit).
RunContinues(address) ==
    /\ am.last.op = "mark_connection_failure"
    /\ am.last.arg = address
RunFromStored(address) ==
    IF RunContinues(address) THEN am.last.from_stored ELSE Store_has(address)
RunFailures(address) ==
    IF RunContinues(address) THEN am.last.failures ELSE 0

\* AddressManager::add_address; the call is recorded with the keys keep_limit removed.
add_address(address) ==
    /\ \E st \in (IF Store_has(address) THEN {TheStore} ELSE Store_set(TheStore, address, 1)) :
          am' = [am EXCEPT !.addresses = st.addresses, !.db = st.db,
                           !.last = Call("add_address", address,
                                         (DOMAIN am.addresses \cup {AddressKey(address)})
                                             \ DOMAIN st.addresses)]
    /\ AMFrame

\* Faulty variant of FailureEvicts: the address is removed one failure later.
FailureEvictsLate(new_count) == new_count > MAX_CONNECTION_FAILED_COUNT + 1

\* mark_connection_failure: new_count > MAX_CONNECTION_FAILED_COUNT
FailureEvicts(new_count) == new_count > MAX_CONNECTION_FAILED_COUNT

\* AddressManager::mark_connection_failure
mark_connection_failure(address) ==
    LET new_count == Store_get(address).connection_failed_count + 1
        n == RunFailures(address)
        after == IF ~Store_has(address) THEN {TheStore}
                 ELSE IF FailureEvicts(new_count) THEN {Store_remove(TheStore, address)}
                 ELSE Store_set(TheStore, address, new_count)
    IN  /\ \E st \in after :
              am' = [am EXCEPT !.addresses = st.addresses, !.db = st.db,
                               !.last = [ op |-> "mark_connection_failure", arg |-> address,
                                          res |-> << >>,
                                          from_stored |-> RunFromStored(address),
                                          failures |-> IF n <= MAX_CONNECTION_FAILED_COUNT
                                                       THEN n + 1 ELSE n ]]
        /\ AMFrame

\* Faulty variant of SuccessCount: the count of the stored entry is written back.
SuccessCountKept(entry) == entry.connection_failed_count

\* mark_connection_success: the count written over the stored entry.
SuccessCount(entry) == 0

\* AddressManager::mark_connection_success
mark_connection_success(address) ==
    /\ \E st \in (IF Store_has(address)
                  THEN Store_set(TheStore, address, SuccessCount(Store_get(address)))
                  ELSE {TheStore}) :
          am' = [am EXCEPT !.addresses = st.addresses, !.db = st.db,
                           !.last = [ op |-> "mark_connection_success", arg |-> address,
                                      res |-> << >>,
                                      from_stored |-> RunFromStored(address),
                                      failures |-> RunFailures(address) ]]
    /\ AMFrame

\* AddressManager::get_random_addresses
get_random_addresses(exceptions) ==
    /\ \E r \in Store_get_randomized_addresses(exceptions) :
          am' = [am EXCEPT !.last = Call("get_random_addresses", exceptions, r)]
    /\ AMFrame

\* AddressManager::ban; the call is recorded with the keys remove_by_ip removed.
ban(ip) ==
    LET st == Store_remove_by_ip(TheStore, ip)
    IN  /\ am' = [am EXCEPT !.banned = (ip :> am.now) @@ @,
                            !.addresses = st.addresses, !.db = st.db,
                            !.last = Call("ban", ip, DOMAIN am.addresses \ DOMAIN st.addresses)]
        /\ AMFrame

\* AddressManager::unban
unban(ip) ==
    /\ am' = [am EXCEPT !.banned = Without(@, ip), !.last = Call("unban", ip, << >>)]
    /\ AMFrame

\* Faulty variant of BanExpired: a ban ends when it is exactly 24 hours old.
BanExpiredAtLimit(timestamp) == am.now - timestamp >= MAX_BANNED_TIME

\* is_banned: unix_now() - timestamp.0 > MAX_BANNED_TIME (the clock does not
\* run backwards, so the unsigned difference does not wrap).
BanExpired(timestamp) == am.now - timestamp > MAX_BANNED_TIME

\* AddressManager::is_banned: an expired ban is removed by the query.
is_banned(ip) ==
    LET found == ip \in DOMAIN am.banned
        expired == found /\ BanExpired(am.banned[ip])
    IN  /\ am' = [am EXCEPT !.banned = IF expired THEN Without(@, ip) ELSE @,
                            !.last = Call("is_banned", ip, found /\ ~expired)]
        /\ AMFrame

\* The clock advances between two calls.
Tick ==
    /\ \E t \in Times : t > am.now /\ am' = [am EXCEPT !.now = t]
    /\ AMFrame

InitAM ==
    /\ Init
    /\ cfg.process_genesis
    /\ cfg.badStage = "ok"

\* The calls that keep the directory of addresses.
NextAM ==
    \/ \E a \in NetAddresses : add_address(a)
    \/ \E a \in NetAddresses : mark_connection_failure(a)
    \/ \E a \in NetAddresses : mark_connection_success(a)
    \/ \E e \in SUBSET NetAddresses : get_random_addresses(e)
    \/ \E ip \in IPs : ban(ip)

SpecAM == InitAM /\ [][NextAM]_vars

\* The calls that keep the bans, with the clock and the addresses added meanwhile.
NextBan ==
    \/ \E a \in NetAddresses : add_address(a)
    \/ \E ip \in IPs : ban(ip)
    \/ \E ip \in IPs : unban(ip)
    \/ \E ip \in IPs : is_banned(ip)
    \/ Tick

SpecBan == InitAM /\ [][NextBan]_vars

\* ================================================================== set cache
\* database/src/set_cache.rs.  Every call that changes the map holds the write
\* lock of the map from its first access to its return, so a call is one step
\* whichever thread makes it.
CacheKeys == 1..3
CacheData == 1..2

\* The keys of an IndexMap, and the position of a key (0 when absent).
KeysOf(map) == {map[i].key : i \in DOMAIN map}
IndexOf(map, key) ==
    IF key \in KeysOf(map) THEN CHOOSE i \in DOMAIN map : map[i].key = key ELSE 0

\* IndexMap::swap_remove_index: the last entry takes the place of the removed one.
swap_remove_index(map, i) ==
    IF i \notin DOMAIN map THEN map
    ELSE LET moved == [map EXCEPT ![i] = map[Len(map)]]
         IN  SubSeq(moved, 1, Len(map) - 1)

\* IndexMap::swap_remove(key)
swap_remove(map, key) == swap_remove_index(map, IndexOf(map, key))

\* IndexMap::insert: the value of a present key is replaced in place, a new
\* key goes to the end.
IndexMap_insert(map, key, set) ==
    IF key \in KeysOf(map)
    THEN [map EXCEPT ![IndexOf(map, key)] = [key |-> key, set |-> set]]
    ELSE Append(map, [key |-> key, set |-> set])

\* IndexMap::get_mut(key) and e.write().insert(data) on the set found.
InsertData(map, key, data) ==
    IF key \in KeysOf(map)
    THEN [map EXCEPT ![IndexOf(map, key)].set = @ \cup {data}]
    ELSE map

\* IndexMap::get_mut(key) and e.write().remove(&data) on the set found.
RemoveData(map, key, data) ==
    IF key \in KeysOf(map)
    THEN [map EXCEPT ![IndexOf(map, key)].set = @ \ {data}]
    ELSE map

\* What a call leaves of the header processor and of the address manager.
SCFrame ==
    UNCHANGED <<cfg, mem, db, guards, th, pending, dependents, spawned, wpc, sinkRes,
                sinkFwd, bodyChan, counters, commitLog, crashed, ioFailed, boots, am, sa, wallet>>

Created == sc.last.op # "none"

\* SetCache::new(size)
SetCache_new(size) ==
    /\ ~Created
    /\ sc' = [map |-> << >>, size |-> size, last |-> [op |-> "new", key |-> 0, removed |-> {}]]
    /\ SCFrame

\* Faulty variant of CacheFull: the test for a full cache is off by one.
CacheOverfull(len) == len = sc.size + 1

\* insert: write_guard.len() == self.size
CacheFull(len) == len = sc.size

\* SetCache::insert: a random index 0..size is removed from a full map first.
SetCache_insert(key, set) ==
    /\ Created
    /\ IF sc.size = 0
       THEN sc' = [sc EXCEPT !.last = [op |-> "insert", key |-> key, removed |-> {}]]
       ELSE \E i \in (IF CacheFull(Len(sc.map)) THEN 1..sc.size ELSE {0}) :
               LET kept == swap_remove_index(sc.map, i)
               IN  sc' = [sc EXCEPT !.map = IndexMap_insert(kept, key, set),
                                    !.last = [op |-> "insert", key |-> key,
                                              removed |-> KeysOf(sc.map) \ KeysOf(kept)]]
    /\ SCFrame

\* SetCache::append_if_entry_exists
SetCache_append_if_entry_exists(key, data) ==
    /\ Created
    /\ sc' = [sc EXCEPT !.map = IF sc.size = 0 THEN @
                                ELSE InsertData(@, key, data),
                        !.last = [op |-> "append_if_entry_exists", key |-> key, removed |-> {}]]
    /\ SCFrame

\* SetCache::remove_if_entry_exists
SetCache_remove_if_entry_exists(key, data) ==
    /\ Created
    /\ sc' = [sc EXCEPT !.map = IF sc.size = 0 THEN @
                                ELSE RemoveData(@, key, data),
                        !.last = [op |-> "remove_if_entry_exists", key |-> key, removed |-> {}]]
    /\ SCFrame

\* SetCache::remove
SetCache_remove(key) ==
    /\ Created
    /\ sc' = [sc EXCEPT !.map = IF sc.size = 0 THEN @ ELSE swap_remove(@, key),
                        !.last = [op |-> "remove", key |-> key,
                                  removed |-> IF sc.size = 0 THEN {} ELSE KeysOf(sc.map) \cap {key}]]
    /\ SCFrame

NextSC ==
    \/ \E n \in 0..MaxCacheSize : SetCache_new(n)
    \/ \E k \in CacheKeys : \E set \in SUBSET CacheData : SetCache_insert(k, set)
    \/ \E k \in CacheKeys : \E d \in CacheData : SetCache_append_if_entry_exists(k, d)
    \/ \E k \in CacheKeys : \E d \in CacheData : SetCache_remove_if_entry_exists(k, d)
    \/ \E k \in CacheKeys : SetCache_remove(k)

\* Before the cache is created; the other components stay as they start.
InitSC == InitAM

SpecSC == InitSC /\ [][NextSC]_vars

\* ------------------------------------------------------- CachedDbSetAccess
\* Keys of the buckets; the elements are those of CacheData, the callers are
\* the threads of the pool.
AccessKeys == 1..2

\* A thread outside read, write and delete.
NoAccessCall == [pc |-> "idle", key |-> 0, data |-> 0, bucket |-> {}]

\* What a step of the set access leaves of the other components.
SAFrame ==
    UNCHANGED <<cfg, mem, db, guards, th, pending, dependents, spawned, wpc, sinkRes,
                sinkFwd, bodyChan, counters, commitLog, crashed, ioFailed, boots, am, sc, wallet>>

\* CachedDbSetAccess::new(db, cache_size, prefix) over an empty bucket range.
CachedDbSetAccess_new(size) ==
    /\ ~sa.created
    /\ sa' = [created |-> TRUE, map |-> << >>, size |-> size,
              db |-> [k \in AccessKeys |-> {}], calls |-> [t \in Pool |-> NoAccessCall]]
    /\ SAFrame

\* SetCache::insert on the cache of the access: the maps it may leave (a random
\* index of a full map is removed first; nothing is kept when the size is 0).
InsertResults(map, size, key, set) ==
    IF size = 0 THEN {map}
    ELSE {IndexMap_insert(swap_remove_index(map, i), key, set) :
            i \in (IF Len(map) = size THEN 1..size ELSE {0})}

\* read: cache.get(&key); a hit returns the cached set.
Access_read(t, key) ==
    /\ sa.created
    /\ sa.calls[t].pc = "idle"
    /\ sa' = [sa EXCEPT !.calls[t] =
                IF key \in KeysOf(sa.map)
                THEN [NoAccessCall EXCEPT !.key = key, !.bucket = sa.map[IndexOf(sa.map, key)].set]
                ELSE [NoAccessCall EXCEPT !.pc = "bucket_iterator", !.key = key]]
    /\ SAFrame

\* read, after a miss: the bucket is collected from the database.
Access_read_bucket(t) ==
    /\ sa.created
    /\ sa.calls[t].pc = "bucket_iterator"
    /\ sa' = [sa EXCEPT !.calls[t].pc = "cache_insert",
                        !.calls[t].bucket = sa.db[sa.calls[t].key]]
    /\ SAFrame

\* read, after a miss: cache.insert(key, data).
Access_read_insert(t) ==
    /\ sa.created
    /\ sa.calls[t].pc = "cache_insert"
    /\ \E m \in InsertResults(sa.map, sa.size, sa.calls[t].key, sa.calls[t].bucket) :
          sa' = [sa EXCEPT !.map = m, !.calls[t].pc = "idle"]
    /\ SAFrame

\* write: cache.append_if_entry_exists(key, data)
Access_write(t, key, data) ==
    /\ sa.created
    /\ sa.calls[t].pc = "idle"
    /\ sa' = [sa EXCEPT !.map = IF sa.size = 0 THEN @ ELSE InsertData(@, key, data),
                        !.calls[t] = [NoAccessCall EXCEPT !.pc = "write_to_db", !.key = key, !.data = data]]
    /\ SAFrame

\* write, continued: write_to_db puts the element into the bucket.
Access_write_to_db(t) ==
    /\ sa.created
    /\ sa.calls[t].pc = "write_to_db"
    /\ sa' = [sa EXCEPT !.db[sa.calls[t].key] = @ \cup {sa.calls[t].data},
                        !.calls[t].pc = "idle"]
    /\ SAFrame

\* delete: cache.remove_if_entry_exists(key, data)
Access_delete(t, key, data) ==
    /\ sa.created
    /\ sa.calls[t].pc = "idle"
    /\ sa' = [sa EXCEPT !.map = IF sa.size = 0 THEN @ ELSE RemoveData(@, key, data),
                        !.calls[t] = [NoAccessCall EXCEPT !.pc = "delete_db", !.key = key, !.data = data]]
    /\ SAFrame

\* delete, continued: writer.delete removes the element from the bucket.
Access_delete_db(t) ==
    /\ sa.created
    /\ sa.calls[t].pc = "delete_db"
    /\ sa' = [sa EXCEPT !.db[sa.calls[t].key] = @ \ {sa.calls[t].data},
                        !.calls[t].pc = "idle"]
    /\ SAFrame

NextSA ==
    \/ \E n \in 0..MaxCacheSize : CachedDbSetAccess_new(n)
    \/ \E t \in Pool : \E k \in AccessKeys : Access_read(t, k)
    \/ \E t \in Pool : Access_read_bucket(t)
    \/ \E t \in Pool : Access_read_insert(t)
    \/ \E t \in Pool : \E k \in AccessKeys : \E d \in CacheData : Access_write(t, k, d)
    \/ \E t \in Pool : Access_write_to_db(t)
    \/ \E t \in Pool : \E k \in AccessKeys : \E d \in CacheData : Access_delete(t, k, d)
    \/ \E t \in Pool : Access_delete_db(t)

\* Before the access is created; the other components stay as they start.
InitSA == InitAM

SpecSA == InitSA /\ [][NextSA]_vars

\* -------------------------------------------------------------- libkaspawallet
\* Extended private keys, derivation paths, and the extended public keys that
\* may stand in a pair: those of the two private keys along path 1 and the one
\* of private key 1 along path 2.
PrivateKeys == 1..2
DerivationPaths == 1..2
PubKeys == 1..3

\* derive_from_path(ext_prv, path): the derived key, one per key and path.
derive_from_path(ext_prv, path) == <<ext_prv, path>>

\* derived_key.public_key().to_string(prefix): distinct derived keys give
\* distinct strings.
public_key(derived) == 2 * (derived[2] - 1) + derived[1]

\* raw_schnorr_input_signature(pstx, key, input_idx, ..): determined by the
\* key and the input of the transaction.
raw_schnorr_input_signature(derived, input_idx) == [key |-> derived, input |-> input_idx]

\* A signature that was in the transaction before the call.
EarlierSignature == [key |-> <<0, 0>>, input |-> 0]

\* Option<Vec<u8>>: None is << >>, Some(sig) is <<sig>>.
PubKeySigPairs == [extended_pubkey : PubKeys, signature : {<< >>, <<EarlierSignature>>}]
PairLists == UNION {[1..n -> PubKeySigPairs] : n \in 1..MaxPairs}

\* InputMetaData with the sig_op_count of the transaction input it belongs to.
InputMetaDatas ==
    [min_signatures : 1..MaxPairs, pub_key_sig_pairs : PairLists,
     derivation_path : DerivationPaths, sig_op_count : {0}]
PartiallySignedTxs == UNION {[1..n -> InputMetaDatas] : n \in 1..MaxInputs}

\* is_fully_signed
is_fully_signed(pstx) ==
    \A i \in DOMAIN pstx :
        Cardinality({j \in DOMAIN pstx[i].pub_key_sig_pairs :
                        pstx[i].pub_key_sig_pairs[j].signature # << >>}) >= pstx[i].min_signatures

\* The pair indexes sign collects for an input: the position of each matching
\* pair within the filtered pairs (enumerate is applied after filter), counted
\* from 1 here.
PairIndexes(pairs, derived_public_key) ==
    1..Cardinality({j \in DOMAIN pairs : pairs[j].extended_pubkey = derived_public_key})

\* sigs_to_change: (signature, input_idx, pair_idx)
sigs_to_change(ext_prv, pstx) ==
    {<<raw_schnorr_input_signature(derive_from_path(ext_prv, pstx[i].derivation_path), i), i, j>> :
        <<i, j>> \in {<<i, j>> \in (DOMAIN pstx) \X (1..MaxPairs) :
                        j \in PairIndexes(pstx[i].pub_key_sig_pairs,
                                          public_key(derive_from_path(ext_prv, pstx[i].derivation_path)))}}

\* input.sig_op_count = input_data.pub_key_sig_pairs.len()
WithSigOpCounts(pstx) ==
    [i \in DOMAIN pstx |-> [pstx[i] EXCEPT !.sig_op_count = Len(pstx[i].pub_key_sig_pairs)]]

\* The last loop of sign: the collected signatures are stored.
WithSignatures(pstx, sigs) ==
    [i \in DOMAIN pstx |->
        [pstx[i] EXCEPT !.pub_key_sig_pairs =
            [j \in DOMAIN pstx[i].pub_key_sig_pairs |->
                IF \E x \in sigs : x[2] = i /\ x[3] = j
                THEN [pstx[i].pub_key_sig_pairs[j] EXCEPT
                        !.signature = <<(CHOOSE x \in sigs : x[2] = i /\ x[3] = j)[1]>>]
                ELSE pstx[i].pub_key_sig_pairs[j]]]]

WalletFrame ==
    UNCHANGED <<cfg, mem, db, guards, th, pending, dependents, spawned, wpc, sinkRes,
                sinkFwd, bodyChan, counters, commitLog, crashed, ioFailed, boots, am, sc, sa>>

\* sign(ext_prv, pstx, is_ecdsa = false, prefix)
sign ==
    LET pstx == wallet.pstx
        counted == WithSigOpCounts(pstx)
        sigs == sigs_to_change(wallet.ext_prv, counted)
    IN  /\ wallet.state = "ready"
        /\ wallet' =
              IF is_fully_signed(pstx)
              THEN [wallet EXCEPT !.state = "returned", !.after = pstx]
              ELSE IF sigs = {}
              THEN [wallet EXCEPT !.state = "panicked", !.after = counted]
              ELSE [wallet EXCEPT !.state = "returned", !.after = WithSignatures(counted, sigs)]
        /\ WalletFrame

\* A transaction and a private key, before sign is called.
InitWallet ==
    /\ cfg = [process_genesis |-> TRUE, badStage |-> "ok", origin_above |-> TRUE, low_level |-> FALSE]
    /\ InitState
    /\ wallet \in [state : {"ready"}, ext_prv : PrivateKeys, pstx : PartiallySignedTxs, after : {<< >>}]

NextWallet == sign

SpecWallet == InitWallet /\ [][NextWallet]_vars

\* ================================================================== claims
Running == {t \in Pool : th[t].pc # "idle"}

\* The commit of p has completed: its status, relations and reachability
\* entries are persisted, and no thread is still inside commit_header for it.
CommitCompleted(p) ==
    /\ Admitted(db, p) /\ Admitted(mem, p)
    /\ Has(db.relations[0], p) /\ Has(mem.relations[0], p)
    /\ Has(db.reach, p) /\ Has(mem.reach, p)
    /\ \A u \in Threads : th[u].hash = p => th[u].pc \notin InCommit

\* C1: process_header runs for a header only after the commit of every direct
\* parent has completed (status, relations and reachability present).
C1_ParentsAdmittedBeforeValidation ==
    \A t \in Running : \A p \in Range(direct_parents(th[t].hash)) : CommitCompleted(p)

\* C1 witness: the merging header 4 is under validation.
C1_Witness == \E t \in Pool : th[t].hash = 4 /\ th[t].pc = "ctx"

\* C2: when commit_header begins for a header, the batch flush of every
\* ancestor has already happened; flushes follow the DAG order.
C2_AncestorsFlushedBeforeCommit ==
    /\ \A t \in Threads : th[t].pc \in InCommit =>
          \A a \in Ancestors(th[t].hash) : a \in Range(commitLog) /\ Admitted(db, a)
    /\ \A i, j \in DOMAIN commitLog :
          commitLog[i] \in Ancestors(commitLog[j]) => i < j

\* C2 witness: header 4 has been flushed after its ancestors 1, 2 and 3.
C2_Witness == Len(commitLog) = 4 /\ commitLog[4] = 4

\* The records a store view holds for an admitted hash.
FullyRecorded(stores, h) ==
    /\ \A l \in 0..pow_level(h) : Has(stores.relations[l], h) /\ Has(stores.ghostdag[l], h)
    /\ Has(stores.reach, h)

\* The in-memory views as a reader can take them: every guard is free.
Readable ==
    /\ CanRead(guards.statuses) /\ CanRead(guards.relations)
    /\ CanRead(guards.tip) /\ guards.reach = {}

\* C3: every hash with status HeaderOnly is present in relations and ghostdag
\* at every level up to its block level, and in reachability.
C3_AdmittedFullyRecorded ==
    \A h \in Hashes :
        /\ (Has(db.statuses, h) /\ db.statuses[h] = "HeaderOnly") => FullyRecorded(db, h)
        /\ (Readable /\ Has(mem.statuses, h) /\ mem.statuses[h] = "HeaderOnly") => FullyRecorded(mem, h)

\* C3 witness: a header of block level 1 other than genesis is admitted.
C3_Witness == Has(db.statuses, 2) /\ db.statuses[2] = "HeaderOnly" /\ ~crashed /\ Readable

AdmittedPairs(stores) == {SortableBlock(h) : h \in {x \in Hashes : Admitted(stores, x)}}

\* The tip of a store view is the maximum pair among its admitted headers
\* (before any header is admitted it is unset or the ORIGIN sentinel).
TipIsMaxAdmitted(stores) ==
    IF AdmittedPairs(stores) = {}
    THEN stores.tip \in {<< >>, <<0, ORIGIN>>}
    ELSE stores.tip = MaxSortable(AdmittedPairs(stores))

\* C4: after a crash between two database writes the persisted stores are
\* consistent: admitted hashes are fully recorded and the persisted tip is the
\* maximum pair among the persisted admitted headers.
C4_CrashConsistent ==
    crashed => /\ \A h \in Hashes : Admitted(db, h) => FullyRecorded(db, h)
               /\ TipIsMaxAdmitted(db)

\* C5: a store's in-memory view differs from the persisted one only while its
\* write guard is held by one committer, and a reader that can see the
\* HeaderOnly status of a hash sees its reachability, relations and tip updates.
C5_GuardsHeldUntilFlush ==
    /\ mem.tip # db.tip => guards.tip # {}
    /\ mem.relations # db.relations => guards.relations # {}
    /\ mem.statuses # db.statuses => guards.statuses # {}
    /\ (mem.reach # db.reach \/ mem.hint # db.hint) => guards.reachMode = "write"
    /\ \A t \in Threads :
          th[t].pc \in {"rel", "setstatus", "reachcommit", "flush", "drop"} => t \in guards.tip
    /\ \A t \in Threads :
          th[t].pc \in {"setstatus", "reachcommit", "flush", "drop"} => t \in guards.relations
    /\ \A t \in Threads :
          th[t].pc \in {"reachcommit", "flush", "drop"} => t \in guards.statuses
    /\ \A h \in Hashes :
          (CanRead(guards.statuses) /\ Has(mem.statuses, h) /\ mem.statuses[h] = "HeaderOnly") =>
              /\ CanReadReach => Has(mem.reach, h)
              /\ CanRead(guards.relations) => Has(mem.relations[0], h)
              /\ CanRead(guards.tip) => ~SortableGreater(SortableBlock(h), mem.tip)

\* C5 witness: a committer has changed the in-memory status, relations, tip and
\* reachability of header 3 and has not flushed its batch yet.
C5_Witness ==
    \E t \in Pool : /\ th[t].pc = "flush" /\ th[t].hash = 3
                    /\ mem.statuses # db.statuses /\ mem.tip # db.tip
                    /\ mem.relations # db.relations /\ mem.reach # db.reach

BootDone == th[Boot].pc = "booted" /\ ~crashed

\* C6 as stated: after the bootstrap routines the tip is the admitted header
\* of maximum (blue_work, hash).
C6_TipIsMaxAfterBootstrap ==
    BootDone => /\ TipIsMaxAdmitted(db)
                /\ (CanRead(guards.tip) /\ CanRead(guards.statuses)) => TipIsMaxAdmitted(mem)

Attached(i) == \E h \in DOMAIN pending : i \in pending[h].sinks

\* Nothing can run any more: the receive loop has ended and the pool is idle.
Quiescent ==
    /\ BootDone /\ wpc # "recv" /\ Running = {}
    /\ \A h \in Hashes : spawned[h] = 0

C8_RecordedParentsAdmitted ==
    \A h \in Hashes : Admitted(db, h) =>
        \A l \in 0..pow_level(h) : Has(db.relations[l], h) =>
            \A p \in Range(db.relations[l][h]) :
                Has(db.relations[l], p) /\ Admitted(db, p)

\* C8 amended: every recorded parent is present in relations at that level, and
\* every recorded parent other than the sentinel ORIGIN (which never has a
\* status) is admitted, hence not Invalid.
C8_RecordedParentsAdmittedOrOrigin ==
    \A h \in Hashes : Admitted(db, h) =>
        \A l \in 0..pow_level(h) :
            /\ Has(db.relations[l], h)
            /\ \A p \in Range(db.relations[l][h]) :
                  /\ Has(db.relations[l], p)
                  /\ p # ORIGIN => Admitted(db, p)
                  /\ p = ORIGIN => ~Has(db.statuses, p)

\* C8 witness: header 4 is admitted with parents recorded at levels 0 and 1.
C8_Witness ==
    /\ Admitted(db, 4)
    /\ db.relations[0][4] = <<2, 3>> /\ db.relations[1][4] = <<2>>

\* C9: a persisted or in-memory status, once present, is never changed, and a
\* batch is never flushed for a hash that already has a persisted status.
C9_StatusNeverRewritten ==
    [][ /\ \A h \in Hashes : Has(db.statuses, h) =>
              Has(db'.statuses, h) /\ db'.statuses[h] = db.statuses[h]
        /\ \A h \in Hashes : (Has(mem.statuses, h) /\ ~crashed') =>
              Has(mem'.statuses, h) /\ mem'.statuses[h] = mem.statuses[h]
        /\ commitLog' # commitLog =>
              /\ ~Has(db.statuses, commitLog'[Len(commitLog')])
              /\ commitLog'[Len(commitLog')] \notin Range(commitLog) ]_vars

\* C9 witness: a hash with status Invalid was submitted again and answered
\* with KnownInvalid.
C9_Witness ==
    \E t \in Pool : /\ th[t].pc = "end" /\ th[t].res = "KnownInvalid"
                    /\ db.statuses[th[t].hash] = "Invalid"

\* C10: whenever process_header returns a validation error the hash is
\* persisted with status Invalid.
C10_RejectedIsPersistedInvalid ==
    \A t \in Pool : (th[t].pc = "end" /\ th[t].res = "RuleError") =>
        Has(db.statuses, th[t].hash) /\ db.statuses[th[t].hash] = "Invalid"

\* ------------------------------------------------------------------ C11, C12
Errors == {"KnownInvalid", "RuleError"}

\* The header is in none of the stores a commit writes, statuses aside.
AbsentFromStores(stores, h) ==
    /\ \A l \in Levels : ~Has(stores.relations[l], h) /\ ~Has(stores.ghostdag[l], h)
    /\ ~Has(stores.reach, h)
    /\ h \notin stores.headers /\ h \notin stores.daa /\ h \notin stores.depth

\* The stores of a view other than statuses.
Frame(stores) == [stores EXCEPT !.statuses = EmptyFn]

\* Thread t takes a step of process_header before commit_header is entered.
ValidationStep(t) ==
    /\ th[t].pc \in {"status", "ctx", "invalid"}
    /\ th'[t] # th[t]
    /\ ~crashed'

\* C11: when process_header returns an error for a header, the header is in
\* none of relations, reachability, ghostdag, headers, daa and depth, and the
\* steps of that call changed neither those stores, nor the selected tip, nor
\* the counters; only statuses may have changed.
C11_ErrorLeavesStoresUntouched ==
    /\ [](\A t \in Pool : (th[t].pc = "end" /\ th[t].res \in Errors) =>
              AbsentFromStores(mem, th[t].hash) /\ AbsentFromStores(db, th[t].hash))
    /\ [][\A t \in Pool : (ValidationStep(t) /\ th'[t].pc \in {"end", "invalid"}) =>
              /\ Frame(mem') = Frame(mem) /\ Frame(db') = Frame(db)
              /\ counters' = counters]_vars

\* C11 witness: header 3 was rejected by post_pow_validation and marked Invalid
\* while another header has been committed.
C11_Witness ==
    \E t \in Pool : /\ th[t].pc = "end" /\ th[t].hash = 3 /\ th[t].res = "RuleError"
                     /\ Has(db.statuses, 3) /\ db.statuses[3] = "Invalid"
                     /\ 2 \in Range(commitLog)

\* C12: a header whose hash already has a status is short-circuited: the
\* result is KnownInvalid for Invalid and the stored status otherwise, and
\* neither that step nor the delivery of the result writes a store or a counter.
C12_ShortCircuitChangesNothing ==
    [][\A t \in Pool :
          /\ (ValidationStep(t) /\ th[t].pc = "status" /\ Has(mem.statuses, th[t].hash)) =>
                /\ th'[t].pc = "end"
                /\ th'[t].res = (IF mem.statuses[th[t].hash] = "Invalid" THEN "KnownInvalid"
                                  ELSE mem.statuses[th[t].hash])
                /\ mem' = mem /\ db' = db /\ counters' = counters /\ commitLog' = commitLog
          /\ (th[t].pc = "end" /\ th'[t] # th[t] /\ ~crashed') =>
                mem' = mem /\ db' = db /\ counters' = counters /\ commitLog' = commitLog]_vars

\* C12 witness: a second submission of the rejected header 3 ended with
\* KnownInvalid and a second submission of genesis ended with its status.
C12_Witness ==
    \E t, u \in Pool :
        /\ th[t].pc = "end" /\ th[t].hash = 3 /\ th[t].res = "KnownInvalid"
        /\ th[u].pc = "end" /\ th[u].hash = GENESIS /\ th[u].res = "HeaderOnly"
        /\ cfg.process_genesis

\* ----------------------------------------------------------------------- C13
ExitForwarded == \E i \in DOMAIN bodyChan : bodyChan[i] = 0

\* C13: Exit is forwarded downstream only when the dependency manager holds no
\* entry and no pool thread is processing, it is forwarded at most once (exactly
\* once when the worker has returned), and nothing is forwarded after it.
C13_ExitForwardedOnceWhenIdle ==
    /\ \A i \in DOMAIN bodyChan : bodyChan[i] = 0 => i = Len(bodyChan)
    /\ ExitForwarded => DOMAIN pending = {} /\ Running = {}
    /\ wpc = "done" => ExitForwarded
    /\ (ExitForwarded /\ ~crashed) => wpc = "done"

\* C13 witness: Exit was forwarded after the Process tasks of the blocks 2 and 3.
C13_Witness == Len(bodyChan) = 3 /\ bodyChan[3] = 0 /\ wpc = "done"

Drainable ==
    \A h \in DOMAIN pending : \A a \in Ancestors(h) :
        Admitted(db, a) \/ (Has(pending, a) /\ Verdict(a) = "ok")

ParentMissing(h) == \E p \in Range(direct_parents(h)) : ~Admitted(db, p)

\* C15: a header submitted before its parent stays pending and is not
\* processed while a parent is not admitted; once its parents are admitted it
\* is eventually committed; a parent is flushed before its child; and a result
\* for a successful header is delivered only after that header was flushed.
C15_ChildAfterParent ==
    /\ [](\A h \in DOMAIN pending : ParentMissing(h) =>
              /\ ~pending[h].running
              /\ \A t \in Pool : th[t].pc # "idle" => th[t].hash # h)
    /\ [](\A j \in DOMAIN commitLog : \A p \in Range(direct_parents(commitLog[j])) :
              \E i \in 1..(j - 1) : commitLog[i] = p)
    /\ [][\A t \in Pool :
              (th[t].pc = "end" /\ th'[t].pc = "idle" /\ th[t].res \notin Errors
                 /\ (sinkRes' # sinkRes \/ sinkFwd' # sinkFwd)) =>
              (th[t].hash \in Range(commitLog) /\ Admitted(db, th[t].hash))]_vars
    /\ \A h \in Hashes :
          (Has(pending, h) /\ ~is_genesis(h) /\ ~ParentMissing(h) /\ Verdict(h) = "ok")
              ~> (h \in Range(commitLog))

\* C15 witness: header 4 was the first submission, before its parents, and
\* has now been flushed last; its sink has not been served yet.
C15_Witness ==
    \E t \in Pool :
        /\ th[t].pc = "end" /\ th[t].hash = 4 /\ th[t].res = "HeaderOnly"
        /\ 1 \in pending[4].sinks /\ sinkRes[1] = 0
        /\ Len(commitLog) = 4 /\ commitLog[4] = 4

\* ----------------------------------------------------------------------- C16
\* Position of the first occurrence of x in a sequence (0 when absent).
FirstIndex(seq, x) ==
    IF \E i \in DOMAIN seq : seq[i] = x
    THEN CHOOSE i \in DOMAIN seq : seq[i] = x /\ \A j \in 1..(i - 1) : seq[j] # x
    ELSE 0

\* C16 as stated: two committed blocks that were forwarded downstream appear on
\* the downstream channel in the order of their batch flushes.
C16_ForwardOrderIsCommitOrder ==
    \A a, b \in Hashes :
        (a # b /\ FirstIndex(bodyChan, a) > 0 /\ FirstIndex(bodyChan, b) > 0
           /\ FirstIndex(commitLog, a) < FirstIndex(commitLog, b)) =>
        FirstIndex(bodyChan, a) < FirstIndex(bodyChan, b)

\* ----------------------------------------------------------------------- C17
\* Threads between the creation of the staging store and the drop of the
\* reachability write guard.
InStaging == {t \in Threads : th[t].pc \in {"tip", "rel", "setstatus", "reachcommit", "flush", "drop"}}

\* C17: at most one thread holds the reachability upgradable-read guard, so at
\* most one staging store exists and at most one staging commit is in flight.
C17_OneStagingCommit ==
    /\ Cardinality(guards.reach) <= 1
    /\ Cardinality(InStaging) <= 1
    /\ guards.reach = InStaging

\* C17 witness: one thread holds the staging store of header 2 while the other
\* thread, committing header 3, waits for the upgradable guard.
C17_Witness ==
    \E t, u \in Pool :
        /\ th[t].hash = 2 /\ th[t].pc = "rel" /\ guards.reach = {t}
        /\ th[u].hash = 3 /\ th[u].pc = "stage"

\* ----------------------------------------------------------------------- C18
\* The step is the worker registering a Process task for h.
RegisterStep(h) ==
    /\ Len(sinkRes') = Len(sinkRes) + 1
    /\ Has(pending', h) /\ Len(sinkRes') \in pending'[h].sinks

\* C18 as stated: register(H) returns true, and the worker spawns a task for
\* H, exactly when all direct parents of H are admitted at the time of the call.
C18_SpawnIffParentsAdmitted ==
    [][\A h \in Hashes : RegisterStep(h) =>
          ((spawned'[h] = spawned[h] + 1) <=> ParentsAdmitted(h))]_vars

\* C18 amended: the worker spawns a task for H exactly when H was not already
\* pending and all its direct parents are admitted at the time of the call;
\* no other task is spawned by that step.
C18_SpawnIffNewAndParentsAdmitted ==
    [][\A h \in Hashes : RegisterStep(h) =>
          /\ (spawned'[h] = spawned[h] + 1) <=> (~Has(pending, h) /\ ParentsAdmitted(h))
          /\ (spawned'[h] = spawned[h]) <=> (Has(pending, h) \/ ~ParentsAdmitted(h))
          /\ \A x \in Hashes \ {h} : spawned'[x] = spawned[x]]_vars

\* C18 witness: header 2, with its parent admitted, was registered twice while
\* pending and spawned once.
C18_Witness ==
    /\ Has(pending, 2) /\ pending[2].sinks = {1, 2} /\ ~pending[2].running
    /\ spawned[2] = 1 /\ Admitted(db, GENESIS)

\* ----------------------------------------------------------------------- C19
\* C19 as stated: after a store operation failed while header h was processed,
\* the processor keeps running, h is not marked Invalid, and the failure comes
\* back as the result of h's task: the task is still on a pool thread, on its
\* way to task_manager.end, or its entry has been ended, so that a later
\* submission of h is registered and processed anew.
C19_StoreFailureIsReturned ==
    \A h \in ioFailed :
        /\ ~crashed
        /\ ~(Has(mem.statuses, h) /\ mem.statuses[h] = "Invalid")
        /\ \/ ~Has(pending, h)
           \/ \E t \in Pool : th[t].hash = h /\ th[t].pc # "idle"

\* ----------------------------------------------------------------------- C20
\* The stores right after the genesis bootstrap, as a store view holds them.
GenesisBootstrapped(stores) ==
    /\ \A l \in Levels : /\ Has(stores.relations[l], ORIGIN) /\ stores.relations[l][ORIGIN] = << >>
                         /\ Has(stores.relations[l], GENESIS) /\ stores.relations[l][GENESIS] = <<ORIGIN>>
    /\ Has(stores.reach, GENESIS) /\ stores.reach[GENESIS].parent = ORIGIN
    /\ stores.tip = <<0, GENESIS>>
    /\ stores.pruning = <<GENESIS, GENESIS, 0>>
    /\ Has(stores.statuses, GENESIS) /\ stores.statuses[GENESIS] = "HeaderOnly"

\* C20: from empty stores, process_origin_if_needed followed by
\* process_genesis_if_needed with genesis processing enabled leaves ORIGIN with
\* no parents and genesis with parents [ORIGIN] in relations at every level,
\* genesis in reachability under ORIGIN, the tip (genesis, 0), the pruning
\* store (genesis, genesis, 0) and statuses[genesis] = HeaderOnly.
C20_GenesisBootstrap ==
    (BootDone /\ cfg.process_genesis /\ Len(sinkRes) = 0) =>
        GenesisBootstrapped(db) /\ GenesisBootstrapped(mem)

\* C20 witness: both bootstrap routines have returned and nothing was submitted yet.
C20_Witness ==
    /\ BootDone /\ cfg.process_genesis /\ Len(sinkRes) = 0
    /\ commitLog = <<GENESIS>> /\ guards = NoGuards

\* A step of the bootstrap thread inside process_origin_if_needed, taken when
\* ORIGIN is already in relations[0].
OriginCallWhenPresent ==
    /\ th[Boot].pc = "origin"
    /\ th'[Boot].pc = "genesis"
    /\ ORIGIN \in DOMAIN mem.relations[0]

\* A step of the bootstrap thread at the entry of process_genesis_if_needed,
\* taken when genesis has a status or genesis processing is disabled.
GenesisCallWhenNotNeeded ==
    /\ th[Boot].pc = "genesis"
    /\ th'[Boot].pc \in {"pruning", "booted"}
    /\ (~cfg.process_genesis \/ GENESIS \in DOMAIN mem.statuses)

\* C21: a call of process_origin_if_needed when ORIGIN is already in
\* relations[0], or of process_genesis_if_needed when genesis has a status or
\* genesis processing is disabled, writes to no store, in memory or persisted
\* (the selected tip and the pruning store included), whatever was admitted
\* before the call.
C21_BootstrapIdempotent ==
    [][(OriginCallWhenPresent \/ GenesisCallWhenNotNeeded) => (mem' = mem /\ db' = db)]_vars

\* Both routines returned from a second call made after header 2 was admitted
\* and had replaced genesis as the selected tip.
C21_Witness ==
    /\ boots = 2
    /\ th[Boot].pc = "booted"
    /\ cfg.process_genesis
    /\ Admitted(db, 2)
    /\ db.tip = SortableBlock(2)
    /\ db.pruning = <<GENESIS, GENESIS, 0>>
    /\ counters.header_counts > 0

\* What a header's entries are when they depend on the header and on the DAG
\* below it alone: the parents of a level (ORIGIN for genesis and for a level
\* without parents), GHOSTDAG over them, and the parents of a level as relations.
RefParents(h, l) ==
    IF is_genesis(h) \/ parents_at_level(h, l) = << >> THEN <<ORIGIN>> ELSE parents_at_level(h, l)

RefGhostdag(h, l) == ghostdag(RefParents(h, l))

RefRelations(h, l) == IF is_genesis(h) THEN <<ORIGIN>> ELSE parents_at_level(h, l)

\* The entries of a view of the stores are the ones the DAG determines.
EntriesDetermined(stores) ==
    \A h \in Hashes : \A l \in Levels :
        /\ Has(stores.ghostdag[l], h) => stores.ghostdag[l][h] = RefGhostdag(h, l)
        /\ Has(stores.relations[l], h) => stores.relations[l][h] = RefRelations(h, l)

\* The persisted append-only stores and relations hold an entry for exactly
\* the admitted hashes, at exactly the levels up to the block level.
KeysDetermined ==
    \A h \in Hashes :
        /\ h \in db.headers <=> Admitted(db, h)
        /\ h \in db.daa <=> Admitted(db, h)
        /\ \A l \in Levels :
              /\ Has(db.ghostdag[l], h) <=> (Admitted(db, h) /\ l <= pow_level(h))
              /\ Has(db.relations[l], h) <=> (Admitted(db, h) /\ l <= pow_level(h))

\* C22: whatever the order in which the headers were submitted and however the
\* workers interleaved, the append-only stores (ghostdag per level, headers,
\* daa) and the relations hold, for every admitted hash, the entries its header
\* and the DAG below it determine, and nothing else: two runs that admitted
\* the same headers hold identical contents.
C22_StoresDetermined ==
    /\ EntriesDetermined(mem)
    /\ EntriesDetermined(db)
    /\ KeysDetermined

\* Header 4 is persisted in a run that committed header 3 before header 2.
C22_Witness ==
    /\ Admitted(db, 4)
    /\ Has(db.ghostdag[0], 4)
    /\ FirstIndex(commitLog, 3) > 0
    /\ FirstIndex(commitLog, 3) < FirstIndex(commitLog, 2)

\* ------------------------------------------------------ the address manager
\* The step is the return of a call op(arg) of the address manager.
AMCall(op, arg) ==
    /\ am'.last.op = op
    /\ am'.last.arg = arg
    /\ am'.now = am.now

Stored(directory, address) == AddressKey(address) \in DOMAIN directory.addresses
CountOf(directory, address) == directory.addresses[AddressKey(address)].connection_failed_count

\* C23 as stated: after any number of mark_connection_failure calls on an
\* address that was stored when they began, followed by mark_connection_success
\* on it, the address is stored with connection_failed_count 0.
C23_SuccessAfterFailuresStoresZero ==
    \A a \in NetAddresses :
        (am.last.op = "mark_connection_success" /\ am.last.arg = a /\ am.last.from_stored)
            => (Stored(am, a) /\ CountOf(am, a) = 0)

\* C23, amended: mark_connection_success on an address that is still stored
\* when it is called leaves it stored with connection_failed_count 0; on an
\* address the failures have removed it changes nothing, the address stays absent.
C23_SuccessResetsWhatIsStored ==
    [][\A a \in NetAddresses :
          AMCall("mark_connection_success", a) =>
              IF Stored(am, a)
              THEN Stored(am', a) /\ CountOf(am', a) = 0
              ELSE am'.addresses = am.addresses /\ am'.db = am.db]_vars

\* mark_connection_success has reset an address after two failures in a row.
C23_Witness ==
    \E a \in NetAddresses :
        /\ am.last.op = "mark_connection_success"
        /\ am.last.arg = a
        /\ am.last.from_stored
        /\ am.last.failures = 2
        /\ Stored(am, a)
        /\ CountOf(am, a) = 0

\* C24: mark_connection_failure on a stored address raises its
\* connection_failed_count by exactly one and keeps it stored while the new
\* count is at most 3; when the new count exceeds 3 the address is removed
\* from the in-memory map and from the database; on an address that is not
\* stored nothing changes.
C24_FailureCountsOrEvicts ==
    [][\A a \in NetAddresses :
          AMCall("mark_connection_failure", a) =>
              IF ~Stored(am, a)
              THEN am'.addresses = am.addresses /\ am'.db = am.db
              ELSE IF CountOf(am, a) + 1 <= 3
                   THEN /\ Stored(am', a)
                        /\ CountOf(am', a) = CountOf(am, a) + 1
                        /\ AddressKey(a) \in DOMAIN am'.db
                        /\ am'.db[AddressKey(a)].connection_failed_count = CountOf(am, a) + 1
                   ELSE /\ AddressKey(a) \notin DOMAIN am'.addresses
                        /\ AddressKey(a) \notin DOMAIN am'.db]_vars

\* The third failure in a row has removed an address that was added before them.
C24_Witness ==
    \E a \in NetAddresses :
        /\ am.last.op = "mark_connection_failure"
        /\ am.last.arg = a
        /\ am.last.from_stored
        /\ am.last.failures = 3
        /\ ~Stored(am, a)
        /\ AddressKey(a) \notin DOMAIN am.db
        /\ am.addresses # EmptyFn

\* The not-banned map right after the insertion of a new address, before keep_limit.
Inserted(a) ==
    (AddressKey(a) :> [address |-> a, connection_failed_count |-> 1]) @@ am.addresses

\* C25: after every call the number of stored not-banned addresses is at most
\* MAX_ADDRESSES; when an insertion brings it above, one entry is removed, and
\* its connection_failed_count is maximal among the entries stored at that moment.
C25_CapacityKeptByEvictingMostFailed ==
    [][/\ Cardinality(DOMAIN am'.addresses) <= MAX_ADDRESSES
       /\ \A a \in NetAddresses :
             ( /\ AMCall("add_address", a)
               /\ ~Stored(am, a)
               /\ Cardinality(DOMAIN am.addresses) = MAX_ADDRESSES )
             => LET removed == DOMAIN Inserted(a) \ DOMAIN am'.addresses
                IN  /\ Cardinality(removed) = 1
                    /\ \A k \in removed : \A j \in DOMAIN Inserted(a) :
                          Inserted(a)[j].connection_failed_count
                              <= Inserted(a)[k].connection_failed_count
                    /\ \A j \in DOMAIN am'.addresses : am'.addresses[j] = Inserted(a)[j]]_vars

\* An insertion into a full store has removed an older entry and
\* kept the new address beside an entry of count 2.
C25_Witness ==
    \E a \in NetAddresses :
        /\ am.last.op = "add_address"
        /\ am.last.arg = a
        /\ am.last.res # {}
        /\ Stored(am, a)
        /\ Cardinality(DOMAIN am.addresses) = MAX_ADDRESSES
        /\ \E b \in NetAddresses : b # a /\ Stored(am, b) /\ CountOf(am, b) = 2

\* C26: right after ban(ip) the banned store holds a record for ip stamped
\* with the current time, no not-banned address of this ip is left in the
\* in-memory map or in the database, and the entries of other IPs are unchanged.
C26_BanStampsAndPurges ==
    [][\A ip \in IPs :
          AMCall("ban", ip) =>
              /\ ip \in DOMAIN am'.banned
              /\ am'.banned[ip] = am.now
              /\ \A k \in DOMAIN am'.addresses \cup DOMAIN am'.db : ~is_ip(k, ip)
              /\ \A k \in DOMAIN am.addresses : ~is_ip(k, ip) =>
                    k \in DOMAIN am'.addresses /\ am'.addresses[k] = am.addresses[k]
              /\ \A k \in DOMAIN am.db : ~is_ip(k, ip) =>
                    k \in DOMAIN am'.db /\ am'.db[k] = am.db[k]
              /\ DOMAIN am'.addresses \subseteq DOMAIN am.addresses
              /\ DOMAIN am'.db \subseteq DOMAIN am.db]_vars

\* ban has removed an address of an ip at a time after the start and left an
\* address of the other ip.
C26_Witness ==
    \E ip \in IPs :
        /\ am.last.op = "ban"
        /\ am.last.arg = ip
        /\ am.last.res # {}
        /\ am.now > 0
        /\ am.banned[ip] = am.now
        /\ am.addresses # EmptyFn

\* A ban record for ip exists and is at most 24 hours old.
FreshBan(ip) ==
    /\ ip \in DOMAIN am.banned
    /\ am.now - am.banned[ip] <= MAX_BANNED_TIME

\* C27: is_banned(ip) returns true iff a ban record for ip exists and its age
\* is at most 24 hours; an older record is removed by the call, which returns
\* false; and a record appears only by a call of ban, so after a false answer
\* the ip stays unbanned until ban is called again.
C27_BannedIffFreshRecord ==
    [][\A ip \in IPs :
          /\ AMCall("is_banned", ip) =>
                /\ am'.last.res = FreshBan(ip)
                /\ ~FreshBan(ip) => ip \notin DOMAIN am'.banned
                /\ FreshBan(ip) => am'.banned = am.banned
          /\ (ip \notin DOMAIN am.banned /\ ip \in DOMAIN am'.banned) => AMCall("ban", ip)]_vars

\* is_banned has answered true for a ban that is exactly 24 hours old, while
\* no other ip is banned.
C27_Witness ==
    \E ip \in IPs :
        /\ am.last.op = "is_banned"
        /\ am.last.arg = ip
        /\ am.last.res = TRUE
        /\ am.now - am.banned[ip] = MAX_BANNED_TIME
        /\ DOMAIN am.banned = {ip}

\* C28: get_random_addresses(exceptions) does not fail, and its result holds
\* each stored address that is not in exceptions exactly once and nothing
\* else, whatever the draws are.
C28_RandomAddressesArePermutation ==
    am.last.op = "get_random_addresses" =>
        LET list == am.last.res.list
        IN  /\ am.last.res.ok
            /\ \A i, j \in DOMAIN list : list[i] = list[j] => i = j
            /\ Range(list) = {a \in NetAddresses : Stored(am, a)} \ am.last.arg

\* Two stored addresses of different counts were returned, the one of the
\* lower weight first, by a call with a non-empty exception set.
C28_Witness ==
    /\ am.last.op = "get_random_addresses"
    /\ am.last.arg # {}
    /\ am.last.res.ok
    /\ Len(am.last.res.list) = 2
    /\ CountOf(am, am.last.res.list[1]) > CountOf(am, am.last.res.list[2])

\* C29: after every completed call (add_address, mark_connection_failure,
\* mark_connection_success, ban, capacity evictions included) the in-memory
\* map and the not-banned store of the database hold the same keys with the
\* same entries.
C29_MapMirrorsDatabase ==
    /\ DOMAIN am.addresses = DOMAIN am.db
    /\ \A k \in DOMAIN am.addresses : am.addresses[k] = am.db[k]

\* A full store after an insertion that evicted an entry: both copies hold
\* the same MAX_ADDRESSES entries, one of them reset by a success.
C29_Witness ==
    /\ am.last.op = "add_address"
    /\ am.last.res # {}
    /\ Cardinality(DOMAIN am.db) = MAX_ADDRESSES
    /\ am.addresses = am.db
    /\ \E k \in DOMAIN am.db : am.db[k].connection_failed_count = 0

\* ------------------------------------------------------------ the set cache
\* C30: a SetCache created with size n holds at most n keys after any sequence
\* of insert, append_if_entry_exists, remove_if_entry_exists and remove calls;
\* an insert into a full cache removes one key that was stored and then holds
\* the key inserted; a cache of size 0 never stores a key.
C30_CacheHoldsAtMostSizeKeys ==
    [][/\ Cardinality(KeysOf(sc'.map)) <= sc'.size
       /\ Len(sc'.map) = Cardinality(KeysOf(sc'.map))
       /\ sc'.size = 0 => sc'.map = << >>
       /\ (sc'.last.op = "insert" /\ sc.size > 0 /\ Len(sc.map) = sc.size) =>
             \E k \in KeysOf(sc.map) :
                 /\ sc'.last.removed = {k}
                 /\ KeysOf(sc'.map) = (KeysOf(sc.map) \ {k}) \cup {sc'.last.key}]_vars

\* An insert of a new key into a full cache of size 2 has removed a stored key.
C30_Witness ==
    /\ sc.size = 2
    /\ sc.last.op = "insert"
    /\ Cardinality(sc.last.removed) = 1
    /\ sc.last.key \notin sc.last.removed
    /\ Len(sc.map) = 2
    /\ \E i \in DOMAIN sc.map : sc.map[i].set = CacheData

\* ------------------------------------------------------ the header processor
\* Threads inside process_header for h (commit_header included).
Processing(h) == {t \in Pool : th[t].hash = h /\ th[t].pc \in {"status", "ctx", "invalid"} \cup InCommit}

\* Executions of commit_header for h: the batches flushed and the commits that
\* have not reached their flush yet.
Occurrences(seq, x) == Cardinality({i \in DOMAIN seq : seq[i] = x})
CommitsOf(h) ==
    Occurrences(commitLog, h)
        + Cardinality({t \in Threads : th[t].hash = h /\ th[t].pc \in InCommit \ {"drop"}})

\* C31: for every hash at most one worker at a time is inside process_header,
\* and commit_header runs at most once for it over the run, however often the
\* hash is submitted and whichever parents release it.
C31_OneProcessorOneCommit ==
    \A h \in Hashes :
        /\ Cardinality(Processing(h)) <= 1
        /\ CommitsOf(h) <= 1

\* Header 2 was committed once and submitted again: a second queue_block task
\* is inside process_header for it.
C31_Witness ==
    /\ Occurrences(commitLog, 2) = 1
    /\ \E t \in Pool : th[t].hash = 2 /\ th[t].pc = "status"
    /\ Admitted(db, 2)

\* ------------------------------------------------------------- reachability
\* a is h or is met on the chain of reachability parents that starts at h.
RECURSIVE ChainAncestor(_, _, _)
ChainAncestor(reach, a, h) ==
    IF a = h THEN TRUE
    ELSE IF h = ORIGIN \/ ~Has(reach, h) THEN FALSE
    ELSE ChainAncestor(reach, a, reach[h].parent)

\* The step of a commit that stages the reachability entry of its header.
StagesReachability(t) == th[t].pc = "stage" /\ th'[t].pc = "tip"

ExpectedReachabilityParent(t) ==
    IF th[t].npp[0] = <<ORIGIN>> THEN ORIGIN ELSE th[t].gd[0].selected_parent

SelectedParentIsAncestor(stores) ==
    \A h \in Hashes \ {GENESIS} :
        Admitted(stores, h) =>
            /\ Has(stores.ghostdag[0], h) /\ Has(stores.reach, h)
            /\ ChainAncestor(stores.reach, stores.ghostdag[0][h].selected_parent, h)

\* C32: a commit stages a reachability entry for its header only when the
\* header is not in reachability yet, under ORIGIN when the non-pruned level-0
\* parents are exactly [ORIGIN] and under the level-0 selected parent
\* otherwise; an entry of the reachability store is never changed by a commit;
\* and once a commit is persisted the selected parent of every admitted
\* non-genesis header is on its chain of reachability parents.
C32_ReachabilityParentRule ==
    [][ /\ \A t \in Threads :
              StagesReachability(t) =>
                  IF Has(mem.reach, th[t].hash)
                  THEN th'[t].batch.reach = EmptyFn
                  ELSE /\ DOMAIN th'[t].batch.reach = {th[t].hash}
                       /\ th'[t].batch.reach[th[t].hash].parent = ExpectedReachabilityParent(t)
        /\ ~crashed' =>
              \A h \in DOMAIN mem.reach : Has(mem'.reach, h) /\ mem'.reach[h] = mem.reach[h]
        /\ SelectedParentIsAncestor(db')
      ]_vars

\* Header 4 is persisted with its reachability entry under its selected parent,
\* which is not ORIGIN, and genesis is persisted under ORIGIN.
C32_Witness ==
    /\ Admitted(db, 4) /\ Has(db.reach, 4)
    /\ db.reach[4].parent = db.ghostdag[0][4].selected_parent
    /\ db.reach[4].parent \in Hashes
    /\ Has(db.reach, GENESIS) /\ db.reach[GENESIS].parent = ORIGIN

\* ------------------------------------------------------- write-once records
\* process_header has built the context of its header / commit_header has
\* filled the append-only part of its batch.
BuildsContext(t) == th[t].pc = "ctx" /\ th'[t].pc = "append"
AppendsRecords(t) == th[t].pc = "append" /\ th'[t].pc = "stage"

GhostdagKept(before, after) ==
    \A l \in Levels : \A h \in DOMAIN before.ghostdag[l] :
        Has(after.ghostdag[l], h) /\ after.ghostdag[l][h] = before.ghostdag[l][h]

\* C33: a GhostdagData record and a header record, once stored, stay as they
\* are in the persisted view on every step, and in the in-memory view on every
\* step of a running process; process_header takes the stored GhostdagData of
\* a level where one is present, and commit_header puts into its batch neither
\* a GhostdagData record for such a level nor a header record that is present.
C33_RecordsWriteOnce ==
    [][ /\ GhostdagKept(db, db') /\ db.headers \subseteq db'.headers
        /\ ~crashed' => GhostdagKept(mem, mem') /\ mem.headers \subseteq mem'.headers
        /\ \A t \in Threads :
              /\ BuildsContext(t) =>
                    \A l \in DOMAIN th'[t].gd :
                        Has(mem.ghostdag[l], th[t].hash) => th'[t].gd[l] = mem.ghostdag[l][th[t].hash]
              /\ AppendsRecords(t) =>
                    /\ \A l \in DOMAIN th'[t].batch.ghostdag : ~Has(mem.ghostdag[l], th[t].hash)
                    /\ th[t].hash \in mem.headers => ~th'[t].batch.headers
      ]_vars

\* The proof header was seeded at level 1 and in the headers store and has been
\* committed: its level-1 record is the seeded one, its level-0 record the one
\* the engine computed on its two parents.
C33_Witness ==
    /\ \E i \in DOMAIN commitLog : commitLog[i] = ProofHeader
    /\ Has(db.ghostdag[1], ProofHeader) /\ db.ghostdag[1][ProofHeader] = ProofGhostdag
    /\ Has(db.ghostdag[0], ProofHeader) /\ db.ghostdag[0][ProofHeader].selected_parent \in Hashes
    /\ \E t \in Pool : /\ th[t].hash = ProofHeader /\ th[t].pc = "drop"
                       /\ ~th[t].batch.headers
                       /\ DOMAIN th[t].batch.ghostdag = {0}

\* ------------------------------------------------------- non-pruned parents
\* The parents of h at level l that are present in relations at level l.
PresentParents(h, l) ==
    SelectSeq(direct_parents(h), LAMBDA p : pow_level(p) >= l /\ p \in DOMAIN mem.relations[l])

\* C34: the context process_header builds holds, for every level up to
\* max_block_level, a non-empty parent list: [ORIGIN] for a header without
\* direct parents, otherwise the parents at that level that relations at that
\* level has, and [ORIGIN] when it has none of them.
C34_NonPrunedParentsNeverEmpty ==
    [][ \A t \in Threads :
          BuildsContext(t) \/ (th[t].pc = "ctx" /\ th'[t].pc = "invalid") =>
              /\ DOMAIN th'[t].npp = Levels
              /\ \A l \in Levels :
                    /\ th'[t].npp[l] # << >>
                    /\ th'[t].npp[l] =
                          IF direct_parents(th[t].hash) = << >> THEN <<ORIGIN>>
                          ELSE IF PresentParents(th[t].hash, l) = << >> THEN <<ORIGIN>>
                          ELSE PresentParents(th[t].hash, l)
      ]_vars

\* Header 4 of level 1 has a context: both parents at level 0, and at level 1,
\* where neither parent is of that level, ORIGIN in their place.
C34_Witness ==
    \E t \in Pool :
        /\ th[t].hash = 4 /\ th[t].pc = "append"
        /\ th[t].npp[0] = <<2, 3>>
        /\ th[t].npp[1] = <<ORIGIN>>

\* ------------------------------------------------- relations and GHOSTDAG input
\* Threads whose commit has written the relations of its header.
WroteRelations == {t \in Threads : th[t].pc \in {"setstatus", "reachcommit", "flush", "drop"}}

\* C35: for a committed header other than genesis, the parent list put into
\* relations at a level up to its block level is the non-pruned parent list of
\* that level, on which GHOSTDAG was run.
C35_RelationsEqualGhostdagInput ==
    \A t \in WroteRelations :
        ~is_genesis(th[t].hash) =>
            \A l \in DOMAIN th[t].batch.relations :
                th[t].batch.relations[l] = th[t].npp[l]

\* --------------------------------------------------------------- the guards
\* The guard a thread is about to acquire at its program point, and the
\* threads holding a guard.
WantsGuard(t) ==
    CASE th[t].pc = "stage" -> "reach"
      [] th[t].pc \in {"tip", "origin_tip"} -> "tip"
      [] th[t].pc \in {"rel", "origin_rel"} -> "relations"
      [] th[t].pc = "setstatus" -> "statuses"
      [] OTHER -> "none"

Holders(g) ==
    CASE g = "reach" -> guards.reach
      [] g = "tip" -> guards.tip
      [] g = "relations" -> guards.relations
      [] g = "statuses" -> guards.statuses
      [] OTHER -> {}

\* Every thread of S waits for a guard that another thread of S holds.
CircularWait(S) ==
    /\ S # {}
    /\ \A t \in S : \E u \in S \ {t} : u \in Holders(WantsGuard(t))

\* C36: the threads inside commit_header, process_origin_if_needed and
\* process_genesis_if_needed never wait for each other's guards in a circle, so
\* a thread that started acquiring the tip, relations, statuses and
\* reachability guards can go on to acquire all of them and release them.
C36_NoDeadlock == \A S \in SUBSET Threads : ~CircularWait(S)

\* -------------------------------------------------------- the set access
\* No thread is inside a call of the set access.
AccessQuiescent == \A t \in Pool : sa.calls[t].pc = "idle"

\* C37: whenever no call is in progress, every cached set equals the bucket of
\* its key in the database, whatever way the reads, writes and deletes of the
\* threads were interleaved.
C37_CachedSetEqualsBucket ==
    (sa.created /\ AccessQuiescent) =>
        \A i \in DOMAIN sa.map : sa.map[i].set = sa.db[sa.map[i].key]

\* ------------------------------------------------------ the address manager
CountsInRange(directory) ==
    \A k \in DOMAIN directory.addresses :
        /\ directory.addresses[k].connection_failed_count \in 0..MAX_CONNECTION_FAILED_COUNT
        /\ Weight(directory.addresses[k].connection_failed_count) > 0

\* C38: after every call of add_address, mark_connection_failure,
\* mark_connection_success, get_random_addresses and ban each stored address
\* has a connection_failed_count in 0..3, hence a positive sampling weight;
\* add_address stores a new address with count 1 and leaves the entry of a
\* stored address as it is.
C38_CountsBetweenZeroAndThree ==
    [][ /\ CountsInRange(am')
        /\ \A a \in NetAddresses :
              AMCall("add_address", a) =>
                  IF Stored(am, a)
                  THEN Stored(am', a) /\ am'.addresses[AddressKey(a)] = am.addresses[AddressKey(a)]
                  ELSE Stored(am', a) => CountOf(am', a) = 1
      ]_vars

\* add_address was called for an address stored with two failures after its
\* insertion: it is still stored with count 3.
C38_Witness ==
    \E a \in NetAddresses :
        /\ am.last.op = "add_address" /\ am.last.arg = a
        /\ Stored(am, a) /\ CountOf(am, a) = MAX_CONNECTION_FAILED_COUNT

\* C39: no address of the not-banned map, which is what get_all_addresses and
\* get_random_addresses return from, has an IP for which is_banned would
\* answer true.
C39_NoStoredAddressOfBannedIp ==
    \A k \in DOMAIN am.addresses : \A ip \in IPs : is_ip(k, ip) => ~FreshBan(ip)

\* ------------------------------------------------------------------ signing
\* The public key derived from the private key along the path of input i.
DerivedPublicKey(i) == public_key(derive_from_path(wallet.ext_prv, wallet.pstx[i].derivation_path))

\* C40: when the transaction handed to sign is not fully signed, sign stores
\* the signature made with the derived key in exactly the pairs whose
\* extended_pubkey is the public key derived along the path of their input,
\* and every other pair keeps the signature it had; when the transaction is
\* fully signed, sign leaves it as it is.
C40_SignsExactlyMatchingPairs ==
    wallet.state = "returned" =>
        IF is_fully_signed(wallet.pstx)
        THEN wallet.after = wallet.pstx
        ELSE \A i \in DOMAIN wallet.pstx : \A j \in DOMAIN wallet.pstx[i].pub_key_sig_pairs :
                wallet.after[i].pub_key_sig_pairs[j].signature =
                    IF wallet.pstx[i].pub_key_sig_pairs[j].extended_pubkey = DerivedPublicKey(i)
                    THEN <<raw_schnorr_input_signature(
                              derive_from_path(wallet.ext_prv, wallet.pstx[i].derivation_path), i)>>
                    ELSE wallet.pstx[i].pub_key_sig_pairs[j].signature
====
